---- MODULE Spec2Model ----
(***************************************************************************)
(* Model of the donation scraper of KLdou/DonationParserBot.               *)
(*                                                                         *)
(* Two implementations of the scraper module live in the repository:       *)
(*   "http"    src/unnamed/part_000: axios + cheerio, sequential page      *)
(*             fetches with retry, and a request queue (processQueue);     *)
(*   "browser" src/forum_donation_scraper.js: puppeteer, parallel page     *)
(*             navigation, no queue.                                       *)
(* Init picks which one is loaded; every action belongs to one of them.    *)
(*                                                                         *)
(* One action is one synchronous run of JavaScript between two awaits:     *)
(* the event loop runs such a segment to completion, so nothing            *)
(* interleaves inside it.                                                  *)
(***************************************************************************)
EXTENDS Integers, Sequences, FiniteSets, TLC

\* ---------------------------------------------------------------- bounds
MaxReq == 3       \* requests submitted in one behaviour
MaxCalls == 2     \* concurrent calls of the browser implementation
MaxTime == 3      \* the clock counts to MaxTime (one tick is 10 minutes)

\* ------------------------------------------------------ program constants
PageSize == 20             \* messages per forum page
DefaultMaxRetries == 3     \* options.maxRetries || 3
DefaultDelay == 500        \* options.delay || 500
BackoffStep == 500         \* setTimeout(resolve, 500 * attempt)
CacheTtlTicks == 3         \* options.cacheTtl || 1800000 ms = 3 ticks of 600000 ms
BrowserTtlTicks == 1       \* now - timestamp < 600000 ms = 1 tick

Req == 1..MaxReq
NoErr == [code |-> "", message |-> ""]

VARIABLES
  impl,               \* which implementation of the module is loaded
  now,                \* Date.now(), in ticks
  nsub,               \* number of processTelegramRequest calls made so far
  requestQueue,       \* requestQueue: the ids of the queued requests
  isProcessingQueue,  \* isProcessingQueue
  scraperInstance,    \* scraperInstance: index into inst, 0 for null
  inst,               \* every ForumDonationScraper ever constructed
  task,               \* per request: position and locals of its task
  startLog,           \* history: requests in the order their task started
  settleLog,          \* history: requests in the order their promise settled
  lastReport,         \* history: the last success payload, its terms, the cache then
  call                \* the last application of one of the scraper's pure methods

vars == <<impl, now, nsub, requestQueue, isProcessingQueue, scraperInstance,
          inst, task, startLog, settleLog, lastReport, call>>

\* No method applied yet.
NoCall == [fn |-> "none"]

\* ------------------------------------------------------ donation records
\* A donation record as parseDonationMessage returns it: date is
\* <<day, month, year>> in source order, time in seconds of the day,
\* amounts in hundredths of BYN.
Donation(pm, d, t, c, g, x) ==
  [paymentMethod |-> pm, date |-> d, time |-> t,
   dateTime |-> [date |-> d, time |-> t], comment |-> c,
   grossAmount |-> g, tax |-> x, netAmount |-> g - x, currency |-> "BYN"]

\* ------------------------------------------------------------- the text
\* A text is a sequence of characters. The payment-method literals and the
\* currency literal are written as one character each: "ERIP" stands for
\* the Cyrillic literal of the source. A line that went through
\* trim().replace(/\s+/g, " ") is a sequence of tokens, the maximal runs of
\* characters that are not whitespace, with one space between neighbours.
PaymentTokens == { "ERIP", "WebPay" }
Digits == { "0", "1", "2", "3", "4", "5", "6", "7", "8", "9" }
IsDigit(c) == c \in Digits
DigitVal(c) ==
  CASE c = "1" -> 1 [] c = "2" -> 2 [] c = "3" -> 3 [] c = "4" -> 4 [] c = "5" -> 5
    [] c = "6" -> 6 [] c = "7" -> 7 [] c = "8" -> 8 [] c = "9" -> 9 [] OTHER -> 0

\* The number a run of digits writes.
RECURSIVE DigitsVal(_)
DigitsVal(s) ==
  IF s = << >> THEN 0
  ELSE DigitsVal(SubSeq(s, 1, Len(s) - 1)) * 10 + DigitVal(s[Len(s)])

\* \d{2}\.\d{2}\.\d{4} as a whole token
IsDate(s) ==
  /\ Len(s) = 10
  /\ \A k \in {1, 2, 4, 5, 7, 8, 9, 10} : IsDigit(s[k])
  /\ s[3] = "." /\ s[6] = "."
\* \d{2}:\d{2}:\d{2} as a whole token
IsTime(s) ==
  /\ Len(s) = 8
  /\ \A k \in {1, 2, 4, 5, 7, 8} : IsDigit(s[k])
  /\ s[3] = ":" /\ s[6] = ":"
\* \d+\.?\d* as a whole token
IsAmount(s) ==
  /\ s # << >>
  /\ IsDigit(s[1])
  /\ \A k \in 1..Len(s) : IsDigit(s[k]) \/ s[k] = "."
  /\ Cardinality({k \in 1..Len(s) : s[k] = "."}) <= 1

\* The date text as <<day, month, year>>, the time text in seconds.
DateOf(s) == << DigitsVal(SubSeq(s, 1, 2)), DigitsVal(SubSeq(s, 4, 5)),
                DigitsVal(SubSeq(s, 7, 10)) >>
TimeOf(s) == DigitsVal(SubSeq(s, 1, 2)) * 3600 + DigitsVal(SubSeq(s, 4, 5)) * 60
               + DigitsVal(SubSeq(s, 7, 8))

\* parseFloat of an amount token, in hundredths (the texts of the model
\* carry at most two decimals).
parseFloat(s) ==
  LET dots == {k \in 1..Len(s) : s[k] = "."}
      dot == IF dots = {} THEN Len(s) + 1 ELSE CHOOSE k \in dots : TRUE
      frac == SubSeq(s, dot + 1, Len(s))
      cents == IF Len(frac) = 0 THEN 0
               ELSE IF Len(frac) = 1 THEN DigitVal(frac[1]) * 10
               ELSE DigitVal(frac[1]) * 10 + DigitVal(frac[2])
  IN  DigitsVal(SubSeq(s, 1, dot - 1)) * 100 + cents

\* The tokens of a line joined by single spaces.
RECURSIVE JoinTokens(_)
JoinTokens(toks) ==
  IF toks = << >> THEN << >>
  ELSE IF Len(toks) = 1 THEN toks[1]
  ELSE toks[1] \o << " " >> \o JoinTokens(Tail(toks))

\* String.prototype.includes for a literal written as one character.
HasLiteral(toks, lit) == \E i \in 1..Len(toks) : \E k \in 1..Len(toks[i]) : toks[i][k] = lit
HasPayment(toks) == \E lit \in PaymentTokens : HasLiteral(toks, lit)

\* comment.replace(/\s+\d+\.?\d*(\s+\d+\.?\d*)*\s*$/, ""): the trailing
\* amount-like tokens go, but never the first token (the pattern starts
\* with whitespace).
RECURSIVE StripAmounts(_)
StripAmounts(toks) ==
  IF Len(toks) >= 2 /\ IsAmount(toks[Len(toks)])
    THEN StripAmounts(SubSeq(toks, 1, Len(toks) - 1))
    ELSE toks

\* A pattern that does not ask for the currency.
PatternAtNoCurrency(toks, i, j) ==
  /\ i >= 1 /\ j >= i + 4 /\ j + 2 <= Len(toks)
  /\ toks[i] # << >> /\ toks[i][Len(toks[i])] \in PaymentTokens
  /\ IsDate(toks[i + 1])
  /\ IsTime(toks[i + 2])
  /\ IsAmount(toks[j]) /\ IsAmount(toks[j + 1]) /\ IsAmount(toks[j + 2])

\* donationPattern matched with the payment method in token i and the first
\* amount in token j: the literal ends token i (the pattern is not anchored
\* on the left), date and time are tokens i+1 and i+2, the free text is the
\* tokens between (at least one: the pattern asks for whitespace on both
\* sides of it), three amounts, and a token that starts with BYN.
PatternAt(toks, i, j) ==
  /\ i >= 1 /\ j >= i + 4 /\ j + 3 <= Len(toks)
  /\ toks[i] # << >> /\ toks[i][Len(toks[i])] \in PaymentTokens
  /\ IsDate(toks[i + 1])
  /\ IsTime(toks[i + 2])
  /\ IsAmount(toks[j]) /\ IsAmount(toks[j + 1]) /\ IsAmount(toks[j + 2])
  /\ toks[j + 3] # << >> /\ toks[j + 3][1] = "BYN"

\* The places where donationPattern matches, and the record the code builds
\* from the match at <<i, j>>.
Matches(toks) ==
  {h \in (1..Len(toks)) \X (1..Len(toks)) : PatternAt(toks, h[1], h[2])}
MatchRecord(toks, i, j) ==
  [paymentMethod |-> toks[i][Len(toks[i])],
   date |-> DateOf(toks[i + 1]), time |-> TimeOf(toks[i + 2]),
   dateTime |-> [date |-> DateOf(toks[i + 1]), time |-> TimeOf(toks[i + 2])],
   comment |-> JoinTokens(StripAmounts(SubSeq(toks, i + 3, j - 1))),
   grossAmount |-> parseFloat(toks[j]),
   tax |-> parseFloat(toks[j + 1]),
   netAmount |-> parseFloat(toks[j + 2]),
   currency |-> "BYN"]

\* parseDonationMessage: << >> is null, otherwise the one record. The match
\* is the leftmost one, and for it the shortest free text (.*? is lazy).
parseDonationMessage(toks) ==
  CHOOSE out \in
    { IF Matches(t) = {} THEN << >>
      ELSE CHOOSE one \in
             { << MatchRecord(t, h[1], h[2]) >> :
                 h \in { f \in Matches(t) :
                           \A g \in Matches(t) :
                             f[1] < g[1] \/ (f[1] = g[1] /\ f[2] <= g[2]) } } : TRUE
      : t \in {toks} } : TRUE

\* ----------------------------------------------------------- the markup
\* The markup of a page, as far as the extraction reads it: the content
\* nodes in document order. A node's body is its lines, each with the
\* separator that follows it in the markup: "br" a line-break tag, "nl" a
\* newline character, "brnl" a tag followed by a newline, "end" nothing.
\* visits is the number of selectors of the browser implementation's list
\* under which the node is processed.
Node(visits, body) == [visits |-> visits, body |-> body]
Piece(line, sep) == [line |-> line, sep |-> sep]

\* Two texts with nothing between them: the last token of the first and the
\* first token of the second become one token.
Glue(a, b) ==
  IF a = << >> THEN b
  ELSE IF b = << >> THEN a
  ELSE SubSeq(a, 1, Len(a) - 1) \o << a[Len(a)] \o b[1] >> \o Tail(b)

\* $(el).text().split("\n"): text() keeps the characters of the text nodes
\* and nothing of a tag, so only a newline character ends a line.
RECURSIVE TextLines(_, _)
TextLines(body, cur) ==
  IF body = << >> THEN << cur >>
  ELSE LET line == Glue(cur, Head(body).line)
       IN  IF Head(body).sep \in {"nl", "brnl"}
             THEN << line >> \o TextLines(Tail(body), << >>)
             ELSE TextLines(Tail(body), line)

\* innerHTML.replace(/<br\s*\/?>/gi, "\n").replace(/<[^>]*>/g, "").split("\n"):
\* a line-break tag and a newline character both end a line.
RECURSIVE HtmlLines(_, _)
HtmlLines(body, cur) ==
  IF body = << >> THEN << cur >>
  ELSE LET line == Glue(cur, Head(body).line)
       IN  IF Head(body).sep \in {"br", "nl", "brnl"}
             THEN << line >> \o HtmlLines(Tail(body), << >>)
             ELSE HtmlLines(Tail(body), line)

\* The test both implementations put on a trimmed line: not empty, holds
\* BYN and one of the payment-method literals.
IsCandidate(line) == line # << >> /\ HasLiteral(line, "BYN") /\ HasPayment(line)

\* The records of the lines, in order, where parseDonationMessage gives one.
RECURSIVE ParseAll(_)
ParseAll(lines) ==
  IF lines = << >> THEN << >>
  ELSE parseDonationMessage(Head(lines)) \o ParseAll(Tail(lines))

\* All the lines of a node's text, when the text holds a payment literal.
NodeCandidates(lines) ==
  IF \E k \in 1..Len(lines) : HasPayment(lines[k])
    THEN SelectSeq(lines, IsCandidate)
    ELSE << >>

\* extractDonationsFromHtml (src/unnamed/part_000): every node once (the
\* selector list gives each element once), every candidate line parsed and
\* its record pushed.
RECURSIVE extractDonationsFromHtml(_)
extractDonationsFromHtml(html) ==
  IF html = << >> THEN << >>
  ELSE ParseAll(NodeCandidates(TextLines(Head(html).body, << >>)))
         \o extractDonationsFromHtml(Tail(html))

\* [...new Set(results)]: the first occurrence of each text, in order.
RECURSIVE Unique(_)
Unique(lines) ==
  IF lines = << >> THEN << >>
  ELSE LET Other(x) == x # Head(lines)
       IN  << Head(lines) >> \o Unique(SelectSeq(Tail(lines), Other))

\* The candidate lines page.evaluate collects: every node once for each
\* selector it is processed under.
RECURSIVE Repeat(_, _)
Repeat(lines, n) == IF n <= 0 THEN << >> ELSE lines \o Repeat(lines, n - 1)
RECURSIVE PageCandidates(_)
PageCandidates(html) ==
  IF html = << >> THEN << >>
  ELSE Repeat(NodeCandidates(HtmlLines(Head(html).body, << >>)), Head(html).visits)
         \o PageCandidates(Tail(html))

\* extractDonationsFromPage (src/forum_donation_scraper.js) when nothing
\* throws: the candidates without duplicates, each parsed.
extractDonationsFromPage(html) == ParseAll(Unique(PageCandidates(html)))

\* ------------------------------------------------------------ the forum
\* The tokens of the forum's donation lines.
TokErip == << "ERIP" >>
TokWebPay == << "WebPay" >>
TokByn == << "BYN" >>
LineSeno ==
  << TokErip, << "0", "1", ".", "0", "2", ".", "2", "0", "2", "5" >>,
     << "0", "0", ":", "0", "1", ":", "4", "0" >>, << "S", "e", "n", "o" >>,
     << "3", "0", ".", "0", "0" >>, << "0", ".", "0", "6" >>,
     << "2", "9", ".", "9", "4" >>, TokByn >>
LineKot ==
  << TokWebPay, << "1", "5", ".", "0", "1", ".", "2", "0", "2", "5" >>,
     << "0", "0", ":", "0", "3", ":", "2", "0" >>, << "k", "o", "t" >>,
     << "1", "0", ".", "0", "0" >>, << "0", ".", "0", "2" >>,
     << "9", ".", "9", "8" >>, TokByn >>
LineKorm ==
  << TokErip, << "1", "3", ".", "0", "1", ".", "2", "0", "2", "5" >>,
     << "0", "0", ":", "0", "5", ":", "0", "0" >>, << "k", "o", "r", "m" >>,
     << "5", ".", "0", "0" >>, << "0", ".", "0", "1" >>,
     << "4", ".", "9", "9" >>, TokByn >>
LineSena ==
  << TokWebPay, << "0", "2", ".", "0", "1", ".", "2", "0", "2", "5" >>,
     << "0", "0", ":", "0", "0", ":", "5", "0" >>, << "s", "e", "n", "a" >>,
     << "7", ".", "0", "0" >>, << "0", ".", "0", "3" >>,
     << "6", ".", "9", "7" >>, TokByn >>

\* The markup of page p of the forum thread: one post per donation line on
\* pages 1 and 2, both implementations read the same lines from it.
ForumHtml(p) ==
  CASE p = 1 -> << Node(1, << Piece(LineSeno, "end") >>),
                   Node(1, << Piece(LineKot, "end") >>) >>
    [] p = 2 -> << Node(1, << Piece(LineKorm, "nl") >>) >>
    [] OTHER -> << Node(1, << Piece(LineSena, "brnl") >>) >>

Page1Records == extractDonationsFromHtml(ForumHtml(1))
Page2Records == extractDonationsFromHtml(ForumHtml(2))
Page3Records == extractDonationsFromHtml(ForumHtml(3))

\* The records extractDonationsFromHtml finds on page p of the forum thread.
\* Page order is not chronological order, and lexical order of the date
\* text is not chronological either (01.02.2025 is after 15.01.2025).
\* A comment is a sequence of characters; the empty sequence is null.
ForumRecords(p) ==
  CASE p = 1 -> Page1Records
    [] p = 2 -> Page2Records
    [] OTHER -> Page3Records

\* The markup of page 1. Its pagination UI: the highest numeric link text,
\* the highest start= offset in a link, the message count of the caption
\* (0: absent). Its posts: lines, how many of the page's donation lines are
\* there (a thread may hold no donation yet).
Page1Markups ==
  { [linkMax |-> 0, startMax |-> 0, msgCount |-> 0, lines |-> 0],
    [linkMax |-> 0, startMax |-> 0, msgCount |-> 0, lines |-> 2],
    [linkMax |-> 2, startMax |-> 20, msgCount |-> 0, lines |-> 2],
    [linkMax |-> 2, startMax |-> 0, msgCount |-> 41, lines |-> 2] }

Max2(a, b) == IF a >= b THEN a ELSE b
Min2(a, b) == IF a <= b THEN a ELSE b
\* A division that rounds down.
FloorDiv(a, b) == a \div b
CeilDiv(a, b) == (a + b - 1) \div b

determineTotalPages(html) ==
  LET fromLinks == Max2(1, html.linkMax)
      fromStart == IF html.startMax > 0
                     THEN Max2(fromLinks, (html.startMax \div PageSize) + 1)
                     ELSE fromLinks
  IN  IF html.msgCount > 0
        THEN Max2(fromStart, CeilDiv(html.msgCount, PageSize))
        ELSE fromStart

\* ------------------------------------------------------------- sorting
\* The dates compared as their text compares: day first.
DateValueLexical(r) ==
  ((r.dateTime.date[1] * 13 + r.dateTime.date[2]) * 40
     + (r.dateTime.date[3] - 2000)) * 86400 + r.dateTime.time

\* new Date("YYYY-MM-DD HH:MM:SS") as a number counted from 1970: year,
\* then month, then day, then the time of day.
DateValue(r) ==
  (((r.dateTime.date[3] - 1970) * 12 + r.dateTime.date[2]) * 31
     + r.dateTime.date[1]) * 86400 + r.dateTime.time

RECURSIVE InsertSorted(_, _)
InsertSorted(r, s) ==
  IF s = << >> THEN << r >>
  ELSE IF DateValue(r) < DateValue(Head(s))
         THEN << r >> \o s
         ELSE << Head(s) >> \o InsertSorted(r, Tail(s))

\* Array.prototype.sort with the comparator dateA - dateB: stable, ascending.
RECURSIVE SortByDate(_)
SortByDate(s) ==
  IF s = << >> THEN << >>
  ELSE CHOOSE out \in { InsertSorted(s[Len(s)], rest) :
                          rest \in {SortByDate(SubSeq(s, 1, Len(s) - 1))} } : TRUE

\* ---------------------------------------------------- requests' inputs
\* searchTermsString: a comma-separated string, given split at the commas
\* (each part a sequence of characters), or a value that is no string.
TermInputs ==
  { [isString |-> FALSE, parts |-> << >>],
    [isString |-> TRUE, parts |-> << << >> >>],
    [isString |-> TRUE, parts |-> << <<" ", "k", "o">>, << >> >>],
    [isString |-> TRUE, parts |-> << <<"x", "y", "z">> >>] }
\* forumUrl: telegram_bot.js passes one fixed URL.
UrlInputs == { "u1" }
\* forumUrl is a parameter of processTelegramRequest: where calls overlap
\* (no queue), a caller with another thread's URL is explored too.
ForumUrls == { "u1", "u2" }
\* options: a field is -1 when the caller leaves it out.
OptionInputs ==
  { [delay |-> -1, maxPages |-> -1, maxRetries |-> -1],
    [delay |-> 0, maxPages |-> 2, maxRetries |-> 2] }

\* The errors axios.get rejects with: a code, a message.
FetchErrors ==
  { [code |-> "ECONNRESET", message |-> "read ECONNRESET"],
    [code |-> "", message |-> "socket hang up"],
    [code |-> "ERR_BAD_REQUEST", message |-> "Request failed with status code 404"] }

RetriableCodes == { "ECONNRESET", "ETIMEDOUT", "EAI_AGAIN" }
Retriable(e) == e.code \in RetriableCodes \/ e.message = "socket hang up"

\* ------------------------------------------------- ForumDonationScraper
\* constructor of src/unnamed/part_000: the defaults, then ...options.
HttpScraper(url, o) ==
  [baseUrl |-> url,
   delay |-> IF o.delay = -1 THEN DefaultDelay ELSE o.delay,
   maxPages |-> IF o.maxPages = -1 THEN 0 ELSE o.maxPages,
   maxRetries |-> IF o.maxRetries = -1 THEN DefaultMaxRetries ELSE o.maxRetries,
   cacheTtl |-> CacheTtlTicks,
   donations |-> << >>,
   cached |-> FALSE, cacheDonations |-> << >>, cacheTimestamp |-> 0]

\* A scraper that never takes its cache.
CacheHitNever(i, t) == FALSE

CacheHitNonEmpty(i, t) ==
  i.cached /\ Len(i.cacheDonations) > 0 /\ t - i.cacheTimestamp < i.cacheTtl

\* The cache test of scrapeAllDonations: _cache.donations is set (an empty
\* array is truthy) and younger than the time to live.
CacheHit(i, t) == i.cached /\ t - i.cacheTimestamp < i.cacheTtl

\* effectivePages: the page cap, when truthy, bounds the resolved count.
EffectivePages(total, maxPages) ==
  IF maxPages # 0 THEN Min2(total, maxPages) ELSE total

\* A comparison that keeps the letter case.
LowerNone(c) == c

\* String.prototype.toLowerCase on one character.
Lower(c) ==
  CASE c = "S" -> "s" [] c = "K" -> "k" [] c = "E" -> "e" [] c = "N" -> "n"
    [] c = "O" -> "o" [] OTHER -> c
LowerAll(s) == [k \in 1..Len(s) |-> Lower(s[k])]
\* String.prototype.trim
RECURSIVE TrimLeft(_)
TrimLeft(s) == IF s # << >> /\ Head(s) = " " THEN TrimLeft(Tail(s)) ELSE s
RECURSIVE TrimRight(_)
TrimRight(s) ==
  IF s # << >> /\ s[Len(s)] = " " THEN TrimRight(SubSeq(s, 1, Len(s) - 1)) ELSE s
Trim(s) == TrimRight(TrimLeft(s))
\* String.prototype.includes
Includes(s, t) ==
  \E k \in 0..(Len(s) - Len(t)) : SubSeq(s, k + 1, k + Len(t)) = t

\* searchTermsString.split(",").map(trim).filter(Boolean)
parseSearchTerms(parts) ==
  LET trimmed == [k \in 1..Len(parts) |-> Trim(parts[k])]
      NonEmpty(t) == t # << >>
  IN  SelectSeq(trimmed, NonEmpty)

filterDonationsByComments(donations, searchTerms) ==
  IF searchTerms = << >> THEN donations
  ELSE LET Match(d) ==
             /\ d.comment # << >>
             /\ \E k \in 1..Len(searchTerms) :
                  Includes(LowerAll(d.comment), Trim(LowerAll(searchTerms[k])))
       IN  SelectSeq(donations, Match)

\* -------------------------------------------------------------- reports
\* Totals that leave the tax out of the net amount.
RECURSIVE calculateTotalsGross(_)
calculateTotalsGross(donations) ==
  IF donations = << >> THEN [count |-> 0, grossAmount |-> 0, tax |-> 0, netAmount |-> 0]
  ELSE LET tot == calculateTotalsGross(SubSeq(donations, 1, Len(donations) - 1))
           d == donations[Len(donations)]
       IN  [count |-> tot.count + 1, grossAmount |-> tot.grossAmount + d.grossAmount,
            tax |-> tot.tax + d.tax, netAmount |-> tot.netAmount + d.grossAmount]

\* calculateTotals: donations.reduce from { count: 0, grossAmount: 0, tax: 0,
\* netAmount: 0 }, amounts in hundredths.
RECURSIVE calculateTotals(_)
calculateTotals(donations) ==
  IF donations = << >> THEN [count |-> 0, grossAmount |-> 0, tax |-> 0, netAmount |-> 0]
  ELSE LET d == donations[Len(donations)]
       IN  CHOOSE out \in
             { [count |-> tot.count + 1, grossAmount |-> tot.grossAmount + d.grossAmount,
                tax |-> tot.tax + d.tax, netAmount |-> tot.netAmount + d.netAmount] :
               tot \in {calculateTotals(SubSeq(donations, 1, Len(donations) - 1))} } :
             TRUE

\* A latest date taken over the filtered records.
LatestOverFiltered(all, filtered) == filtered

\* The records the latest date is taken over: scraperInstance.donations.
LatestOver(all, filtered) == all

\* latestDateStr: the reduce keeps the first record no later one exceeds,
\* toLocaleDateString("ru-RU") prints its day, month and year; "no data"
\* (known FALSE) for no record.
NoDate == [known |-> FALSE, date |-> <<0, 0, 0>>]
RECURSIVE LatestRecord(_)
LatestRecord(donations) ==
  IF Len(donations) = 1 THEN donations[1]
  ELSE LET m == LatestRecord(SubSeq(donations, 1, Len(donations) - 1))
           d == donations[Len(donations)]
       IN  IF DateValue(d) > DateValue(m) THEN d ELSE m
LatestDateStr(donations) ==
  IF donations = << >> THEN NoDate
  ELSE [known |-> TRUE, date |-> LatestRecord(donations).dateTime.date]

\* A summary that also tells when it was made.
SummaryStamped(terms, totals, latest) ==
  [terms |-> terms, count |-> totals.count, latest |-> latest,
   gross |-> totals.grossAmount, tax |-> totals.tax, net |-> totals.netAmount,
   stamp |-> now]

\* summaryMessage: the fixed template filled with the terms, the count, the
\* latest date and the three totals.
SummaryMessage(terms, totals, latest) ==
  [terms |-> terms, count |-> totals.count, latest |-> latest,
   gross |-> totals.grossAmount, tax |-> totals.tax, net |-> totals.netAmount]

\* generateXLSX: one row per donation in the fixed column order, the
\* comment blank when there is none.
generateXLSX(donations) ==
  [k \in 1..Len(donations) |->
     [paymentMethod |-> donations[k].paymentMethod, date |-> donations[k].date,
      time |-> donations[k].time, comment |-> donations[k].comment,
      grossAmount |-> donations[k].grossAmount, tax |-> donations[k].tax,
      netAmount |-> donations[k].netAmount, currency |-> donations[k].currency]]

\* ------------------------------------------------------------- payloads
NoTotals == [gross |-> 0, tax |-> 0, net |-> 0]
NoSummary == SummaryMessage(<< >>, calculateTotals(<< >>), NoDate)
NoResult == [success |-> FALSE, hasDoc |-> FALSE, error |-> NoErr, page |-> 0,
             fetchFailure |-> FALSE,
             filtered |-> << >>, threw |-> FALSE, settled |-> "no",
             xslxContent |-> << >>, summaryMessage |-> NoSummary,
             totalDonations |-> 0, totals |-> NoTotals]
\* { success: true, xslxContent, summaryMessage, totalDonations, totals,
\* filteredDonations }: all is scraperInstance.donations, filtered what the
\* filter gave for terms.
SuccessPayload(all, filtered, terms) ==
  CHOOSE out \in
    { [NoResult EXCEPT
         !.success = TRUE, !.hasDoc = TRUE, !.filtered = filtered,
         !.xslxContent = generateXLSX(filtered),
         !.summaryMessage =
            SummaryMessage(terms, totals, LatestDateStr(LatestOver(all, filtered))),
         !.totalDonations = totals.count,
         !.totals = [gross |-> totals.grossAmount, tax |-> totals.tax,
                     net |-> totals.netAmount]] :
      totals \in {calculateTotals(filtered)} } : TRUE
\* { success: false, error: e.message, summaryMessage }: e is the error
\* thrown, page the page number its message names (0: none; a message that
\* names a page is fetchPageHtml's).
FailurePayload(e, p) ==
  [NoResult EXCEPT !.error = e, !.page = p, !.fetchFailure = p > 0]

TypeErr == [code |-> "", message |-> "TypeError"]
UnknownErr == [code |-> "", message |-> "unknown page load error"]

\* No success payload returned yet.
NoReport == [valid |-> FALSE]

\* ---------------------------------------------------------- task state
\* The locals of one request's task. The fields from waits on are history:
\*   waits     backoff waits of the running fetchPageHtml call, in ms
\*   loaded    pages successfully loaded by this scrape cycle, ascending
\*   resolved  page-count resolutions made by this scrape cycle
\*   total     the page count the last resolution gave, before the cap
\*   snap      the cache as it was when scrapeAllDonations was entered
\*   lost      pages whose extraction failed and was taken as no records
\*   maxPages  options.maxPages as the request passed it, 0 when left out
PlainMarkup == [linkMax |-> 0, startMax |-> 0, msgCount |-> 0, lines |-> 1]
NoRes == [page |-> 0, attempt |-> 0, markup |-> PlainMarkup]
NoSnap == [cached |-> FALSE, cacheDonations |-> << >>, cacheTimestamp |-> 0]
NewTask ==
  [pc |-> "new", self |-> 0, terms |-> << >>, page |-> 0, attempt |-> 0,
   pages |-> 0, res |-> NoRes, lastErr |-> NoErr, result |-> NoResult,
   waits |-> << >>, loaded |-> << >>, resolved |-> 0, total |-> 0,
   snap |-> NoSnap, lost |-> {}, maxPages |-> 0]

SnapOf(i) ==
  [cached |-> i.cached, cacheDonations |-> i.cacheDonations,
   cacheTimestamp |-> i.cacheTimestamp]

\* Without the task's try/catch an error leaves the task as a rejection.
ReturnedNoCatch(t, payload) ==
  IF payload.success THEN [t EXCEPT !.pc = "returned", !.result = payload]
  ELSE [t EXCEPT !.pc = "threw", !.result = [payload EXCEPT !.threw = TRUE]]

\* The task function returned: its promise is resolved with payload.
Returned(t, payload) == [t EXCEPT !.pc = "returned", !.result = payload]
\* The caller's promise is settled with the payload; the task's locals are
\* gone. Of the payload the model keeps what kind it is.
Settled(t, how) ==
  [NewTask EXCEPT !.pc = "settled",
                  !.result = [NoResult EXCEPT !.success = t.result.success,
                                              !.hasDoc = t.result.hasDoc,
                                              !.threw = t.result.threw,
                                              !.fetchFailure = t.result.fetchFailure,
                                              !.settled = how]]

\* fetchPageHtml(pageNumber) up to its first await: the for loop is entered
\* when 1 <= maxRetries and axios.get is issued; otherwise the statement
\* after the loop throws.
FetchBegin(t, me, p) ==
  IF 1 <= me.maxRetries
    THEN [t EXCEPT !.pc = "fetch", !.page = p, !.attempt = 1, !.waits = << >>,
                   !.lastErr = NoErr]
    ELSE Returned([t EXCEPT !.page = p], FailurePayload(UnknownErr, 0))

\* The task of processTelegramRequest from its start to its first wait:
\* parse the terms, reuse or replace the scraper, enter scrapeAllDonations.
\* Gives the task's new locals, the scrapers and scraperInstance.
TaskBegin(url, termIn, o) ==
  IF ~termIn.isString
    THEN [t |-> Returned(NewTask, FailurePayload(TypeErr, 0)),
          inst |-> inst, si |-> scraperInstance]
    ELSE
      LET fresh == scraperInstance = 0 \/ inst[scraperInstance].baseUrl # url
          insts == IF fresh THEN Append(inst, HttpScraper(url, o)) ELSE inst
          si == IF fresh THEN Len(inst) + 1 ELSE scraperInstance
          me == insts[si]
          t0 == [NewTask EXCEPT !.self = si, !.terms = parseSearchTerms(termIn.parts),
                                !.snap = SnapOf(me),
                                !.maxPages = IF o.maxPages = -1 THEN 0 ELSE o.maxPages]
      IN  IF CacheHit(me, now)
            THEN [t |-> [t0 EXCEPT !.pc = "scraped"],
                  inst |-> [insts EXCEPT ![si].donations = me.cacheDonations],
                  si |-> si]
            ELSE [t |-> FetchBegin(t0, me, 1), inst |-> insts, si |-> si]

\* ------------------------------------------------------- request queue
WorkerStartsNoFlag(flag, q) == ~(Len(q) = 0)

\* processQueue's entry test: the worker loop starts only when none runs
\* and something is queued.
WorkerStarts(flag, q) == ~(flag \/ Len(q) = 0)

DequeueLast(q) == [head |-> q[Len(q)], rest |-> SubSeq(q, 1, Len(q) - 1)]

\* requestQueue.shift()
Dequeue(q) == [head |-> Head(q), rest |-> Tail(q)]

\* processTelegramRequest (http): push the request, call processQueue; when
\* no worker loop runs, the loop starts and runs the first task up to its
\* first await within the same call. The task closes over the call's
\* arguments and first reads them when it starts, so they are drawn there.
Submit ==
  /\ impl = "http"
  /\ nsub < MaxReq
  /\ LET r == nsub + 1
         q == Append(requestQueue, r)
     IN  /\ nsub' = r
         /\ IF WorkerStarts(isProcessingQueue, q)
              THEN \E url \in UrlInputs, termIn \in TermInputs, o \in OptionInputs :
                     LET d == Dequeue(q)
                         b == TaskBegin(url, termIn, o)
                     IN  /\ isProcessingQueue' = TRUE
                         /\ requestQueue' = d.rest
                         /\ task' = [[task EXCEPT ![r].pc = "queued"]
                                       EXCEPT ![d.head] = b.t]
                         /\ inst' = b.inst
                         /\ scraperInstance' = b.si
                         /\ startLog' = Append(startLog, d.head)
              ELSE /\ requestQueue' = q
                   /\ task' = [task EXCEPT ![r].pc = "queued"]
                   /\ UNCHANGED <<isProcessingQueue, inst, scraperInstance, startLog>>
  /\ UNCHANGED <<call, lastReport, impl, now, settleLog>>

\* try { resolve(await task()) } catch (e) { reject(e) }
SettleHow(pc) == IF pc = "returned" THEN "resolved" ELSE "rejected"

\* Without the loop's try/catch a task's rejection ends processQueue: the
\* caller is never settled, the flag stays set, the queue is not drained.
QueueContinueNoCatch(r) ==
  /\ impl = "http"
  /\ task[r].pc \in {"returned", "threw"}
  /\ IF task[r].pc = "threw"
       THEN /\ task' = [task EXCEPT ![r] = [NewTask EXCEPT !.pc = "abandoned"]]
            /\ UNCHANGED <<requestQueue, isProcessingQueue, inst, scraperInstance,
                           startLog, settleLog>>
       ELSE /\ settleLog' = Append(settleLog, r)
            /\ IF Len(requestQueue) # 0
                 THEN \E url \in UrlInputs, termIn \in TermInputs, o \in OptionInputs :
                        LET d == Dequeue(requestQueue)
                            b == TaskBegin(url, termIn, o)
                        IN  /\ requestQueue' = d.rest
                            /\ task' = [[task EXCEPT ![r] = Settled(task[r], "resolved")]
                                          EXCEPT ![d.head] = b.t]
                            /\ inst' = b.inst
                            /\ scraperInstance' = b.si
                            /\ startLog' = Append(startLog, d.head)
                            /\ UNCHANGED isProcessingQueue
                 ELSE /\ isProcessingQueue' = FALSE
                      /\ task' = [task EXCEPT ![r] = Settled(task[r], "resolved")]
                      /\ UNCHANGED <<requestQueue, inst, scraperInstance, startLog>>
  /\ UNCHANGED <<call, lastReport, impl, now, nsub>>

\* A worker that runs one task per call of processQueue: after the task it
\* settles the caller and clears the flag without looking at the queue.
QueueContinueOnce(r) ==
  /\ impl = "http"
  /\ task[r].pc \in {"returned", "threw"}
  /\ settleLog' = Append(settleLog, r)
  /\ isProcessingQueue' = FALSE
  /\ task' = [task EXCEPT ![r] = Settled(task[r], SettleHow(task[r].pc))]
  /\ UNCHANGED <<call, lastReport, impl, now, nsub, requestQueue, inst,
                 scraperInstance, startLog>>

\* processQueue after `await task()`: settle the caller's promise (resolve
\* with the payload, reject when the task threw), then take the next
\* request and run its task to its first await, or clear the flag.
QueueContinue(r) ==
  /\ impl = "http"
  /\ task[r].pc \in {"returned", "threw"}
  /\ LET how == SettleHow(task[r].pc)
         done == [task EXCEPT ![r] = Settled(task[r], how)]
     IN  /\ settleLog' = Append(settleLog, r)
         /\ IF Len(requestQueue) # 0
              THEN \E url \in UrlInputs, termIn \in TermInputs, o \in OptionInputs :
                     LET d == Dequeue(requestQueue)
                         b == TaskBegin(url, termIn, o)
                     IN  /\ requestQueue' = d.rest
                         /\ task' = [done EXCEPT ![d.head] = b.t]
                         /\ inst' = b.inst
                         /\ scraperInstance' = b.si
                         /\ startLog' = Append(startLog, d.head)
                         /\ UNCHANGED isProcessingQueue
              ELSE /\ isProcessingQueue' = FALSE
                   /\ task' = done
                   /\ UNCHANGED <<requestQueue, inst, scraperInstance, startLog>>
  /\ UNCHANGED <<call, lastReport, impl, now, nsub>>

\* --------------------------------------------------- fetch and scrape
\* The records extractDonationsFromHtml gives for the markup in res, which
\* came from page res.page and holds the first res.markup.lines of the
\* page's donation lines.
PageRecords(res) ==
  SubSeq(ForumRecords(res.page), 1, Min2(res.markup.lines, Len(ForumRecords(res.page))))

\* The error fetchPageHtml throws: the message names the page, the code is
\* the code of the underlying error.
FinalError(e, p) == FailurePayload([code |-> e.code, message |-> e.message], p)

GivesUpNotRetriable(attempt, maxRetries, e) == ~Retriable(e)

\* The catch block's test: give up on the last attempt or on an error that
\* is not retriable.
GivesUp(attempt, maxRetries, e) == attempt = maxRetries \/ ~Retriable(e)

BackoffFlat(attempt) == BackoffStep

\* The backoff before the next attempt.
Backoff(attempt) == BackoffStep * attempt

\* A scrape that stores each page's records in the cache as they come.
ScrapeContinueEager(t, me, clock) ==
  LET recs == PageRecords(t.res)
      first == t.page = 1
      total == IF first THEN determineTotalPages(t.res.markup) ELSE t.total
      pages == IF first THEN EffectivePages(total, me.maxPages) ELSE t.pages
      list == IF first THEN recs ELSE me.donations \o recs
      t1 == [t EXCEPT !.pages = pages, !.total = total, !.res.markup = PlainMarkup,
                      !.resolved = IF first THEN t.resolved + 1 ELSE t.resolved]
      sorted == SortByDate(list)
      stored == [me EXCEPT !.donations = sorted, !.cached = TRUE,
                           !.cacheDonations = sorted, !.cacheTimestamp = clock]
  IN  IF t.page + 1 <= pages
        THEN [t |-> FetchBegin(t1, me, t.page + 1), me |-> stored]
        ELSE [t |-> [t1 EXCEPT !.pc = "scraped"], me |-> stored]

\* scrapeAllDonations (http) from the return of fetchPageHtml(t.page) on:
\* page 1 resolves the page count and starts the record list, a later page
\* appends to it; then the next page is fetched, or the list is sorted and
\* the cache replaced. Gives the task's locals and the scraper.
ScrapeContinue(t, me, clock) ==
  LET recs == PageRecords(t.res)
      first == t.page = 1
      total == IF first THEN determineTotalPages(t.res.markup) ELSE t.total
      pages == IF first THEN EffectivePages(total, me.maxPages) ELSE t.pages
      list == IF first THEN recs ELSE me.donations \o recs
      t1 == [t EXCEPT !.pages = pages, !.total = total, !.res.markup = PlainMarkup,
                      !.resolved = IF first THEN t.resolved + 1 ELSE t.resolved]
  IN  IF t.page + 1 <= pages
        THEN [t |-> FetchBegin(t1, me, t.page + 1),
              me |-> [me EXCEPT !.donations = list]]
        ELSE CHOOSE out \in
               { [t |-> [t1 EXCEPT !.pc = "scraped"],
                  me |-> [me EXCEPT !.donations = sorted, !.cached = TRUE,
                                    !.cacheDonations = sorted,
                                    !.cacheTimestamp = clock]] :
                 sorted \in {SortByDate(list)} } : TRUE

\* axios.get resolves: with a delay configured the task waits for it,
\* otherwise fetchPageHtml returns res.data at once.
FetchOk(r) ==
  /\ impl = "http"
  /\ task[r].pc = "fetch"
  /\ \E m \in (IF task[r].page = 1 THEN Page1Markups ELSE {PlainMarkup}) :
       LET t == [task[r] EXCEPT
                   !.res = [page |-> task[r].page, attempt |-> task[r].attempt,
                            markup |-> m],
                   !.loaded = Append(task[r].loaded, task[r].page)]
           me == inst[t.self]
       IN  IF me.delay # 0
             THEN /\ task' = [task EXCEPT ![r] = [t EXCEPT !.pc = "delay"]]
                  /\ UNCHANGED inst
             ELSE \E c \in {ScrapeContinue(t, me, now)} :
                    /\ task' = [task EXCEPT ![r] = c.t]
                    /\ inst' = [inst EXCEPT ![t.self] = c.me]
  /\ UNCHANGED <<call, lastReport, impl, now, nsub, requestQueue, isProcessingQueue,
                 scraperInstance, startLog, settleLog>>

\* The inter-request delay has passed: fetchPageHtml returns res.data.
DelayDone(r) ==
  /\ impl = "http"
  /\ task[r].pc = "delay"
  /\ \E c \in {ScrapeContinue(task[r], inst[task[r].self], now)} :
       /\ task' = [task EXCEPT ![r] = c.t]
       /\ inst' = [inst EXCEPT ![task[r].self] = c.me]
  /\ UNCHANGED <<call, lastReport, impl, now, nsub, requestQueue, isProcessingQueue,
                 scraperInstance, startLog, settleLog>>

\* axios.get rejects with e: give up and throw (the task's catch turns the
\* error into a failure payload), or wait the backoff.
FetchFail(r) ==
  /\ impl = "http"
  /\ task[r].pc = "fetch"
  /\ \E e \in FetchErrors :
       LET t == [task[r] EXCEPT !.lastErr = e]
       IN  IF GivesUp(t.attempt, inst[t.self].maxRetries, e)
             THEN task' = [task EXCEPT ![r] = Returned(t, FinalError(e, t.page))]
             ELSE task' = [task EXCEPT ![r] =
                             [t EXCEPT !.pc = "backoff",
                                       !.waits = Append(t.waits, Backoff(t.attempt))]]
  /\ UNCHANGED <<call, lastReport, impl, now, nsub, requestQueue, isProcessingQueue,
                 scraperInstance, inst, startLog, settleLog>>

\* The backoff has passed: the loop's next attempt issues axios.get again.
\* The loop ends without an attempt when attempt exceeds maxRetries, and the
\* statement after it throws the last attempt's error.
BackoffDone(r) ==
  /\ impl = "http"
  /\ task[r].pc = "backoff"
  /\ LET t == task[r]
     IN  IF t.attempt + 1 <= inst[t.self].maxRetries
           THEN task' = [task EXCEPT ![r] =
                           [t EXCEPT !.pc = "fetch", !.attempt = t.attempt + 1]]
           ELSE task' = [task EXCEPT ![r] = Returned(t, FailurePayload(t.lastErr, 0))]
  /\ UNCHANGED <<call, lastReport, impl, now, nsub, requestQueue, isProcessingQueue,
                 scraperInstance, inst, startLog, settleLog>>

\* The report r is about to make repeats the last one: the same scraper
\* (the same forum URL), the same terms, the cache as that report left it,
\* and r's scrapeAllDonations answered from the cache.
Repeats(r) ==
  /\ lastReport.valid
  /\ lastReport.self = scraperInstance
  /\ lastReport.terms = task[r].terms
  /\ lastReport.cache = SnapOf(inst[scraperInstance])
  /\ task[r].loaded = << >>

\* The task after `await scraperInstance.scrapeAllDonations()`: filter the
\* scraper's records, build the document and the summary, return success.
Report(r) ==
  /\ impl = "http"
  /\ task[r].pc = "scraped"
  /\ \E payload \in
         { SuccessPayload(inst[scraperInstance].donations, filtered, task[r].terms) :
             filtered \in {filterDonationsByComments(inst[scraperInstance].donations,
                                                     task[r].terms)} } :
         /\ task' = [task EXCEPT ![r] = Returned(task[r], payload)]
         /\ lastReport' = [valid |-> TRUE, self |-> scraperInstance,
                           terms |-> task[r].terms,
                           cache |-> SnapOf(inst[scraperInstance]),
                           again |-> Repeats(r),
                           summaryMessage |-> payload.summaryMessage,
                           xslxContent |-> payload.xslxContent]
  /\ UNCHANGED <<call, impl, now, nsub, requestQueue, isProcessingQueue,
                 scraperInstance, inst, startLog, settleLog>>

\* Time passes while a task waits for the network or a timer, or while
\* nothing runs.
TimedWait(r) == task[r].pc \in {"fetch", "backoff", "delay"}
Running(r) == task[r].pc \in {"fetch", "backoff", "delay", "scraped"}
Tick ==
  /\ now < MaxTime
  /\ impl = "http"
  /\ (\E r \in Req : TimedWait(r)) \/ (\A r \in Req : ~Running(r))
  /\ now' = now + 1
  /\ UNCHANGED <<call, lastReport, impl, nsub, requestQueue, isProcessingQueue, scraperInstance,
                 inst, task, startLog, settleLog>>

\* ------------------------------------------- the browser implementation
\* constructor of src/forum_donation_scraper.js: { headless, delay,
\* ...options }; maxPages and maxRetries are kept in options and never read;
\* the cache's time to live is the literal 600000 of scrapeAllDonations.
BrowserDelay == 1000
BrowserScraper(url, o) ==
  [baseUrl |-> url,
   delay |-> IF o.delay = -1 THEN BrowserDelay ELSE o.delay,
   maxPages |-> IF o.maxPages = -1 THEN 0 ELSE o.maxPages,
   maxRetries |-> o.maxRetries,
   cacheTtl |-> BrowserTtlTicks,
   donations |-> << >>,
   cached |-> FALSE, cacheDonations |-> << >>, cacheTimestamp |-> 0]

\* getTotalPages: Math.max(maxPage, pagesFromCount).
getTotalPages(html) ==
  LET fromLinks == Max2(1, html.linkMax)
      maxPage == IF html.startMax > 0
                   THEN Max2(fromLinks, (html.startMax \div PageSize) + 1)
                   ELSE fromLinks
      pagesFromCount == IF html.msgCount > 0 THEN CeilDiv(html.msgCount, PageSize) ELSE 1
  IN  Max2(maxPage, pagesFromCount)

\* What page.goto, puppeteer.launch or page.evaluate reject with.
BrowserErr == [code |-> "", message |-> "Navigation timeout exceeded"]

\* The async function returned: the caller's promise is resolved.
Resolved(t, payload) == Settled([t EXCEPT !.result = payload], "resolved")

\* allDonations.flat(): the pages' records in page order; a page whose
\* extraction failed contributes [] (the catch of extractDonationsFromPage).
RECURSIVE FlatPages(_, _, _, _)
FlatPages(p, n, lost, lines1) ==
  IF p > n THEN << >>
  ELSE (IF p \in lost THEN << >>
        ELSE IF p = 1 THEN SubSeq(ForumRecords(1), 1, lines1)
        ELSE ForumRecords(p)) \o FlatPages(p + 1, n, lost, lines1)

\* processTelegramRequest (browser) from the call to its first wait. Of a
\* term string only that it is one matters here: what its terms are is read
\* again after the scrape and is drawn there.
BCall ==
  /\ impl = "browser"
  /\ nsub < MaxCalls
  /\ \E url \in ForumUrls, termIn \in TermInputs, o \in OptionInputs :
       LET r == nsub + 1
       IN  /\ nsub' = r
           /\ startLog' = Append(startLog, r)
           /\ IF ~termIn.isString
                THEN /\ task' = [task EXCEPT ![r] =
                                   Resolved(NewTask, FailurePayload(TypeErr, 0))]
                     /\ settleLog' = Append(settleLog, r)
                     /\ UNCHANGED <<inst, scraperInstance>>
                ELSE
                  LET fresh == scraperInstance = 0
                                 \/ inst[scraperInstance].baseUrl # url
                      insts == IF fresh THEN Append(inst, BrowserScraper(url, o))
                               ELSE inst
                      si == IF fresh THEN Len(inst) + 1 ELSE scraperInstance
                      me == insts[si]
                      t0 == [NewTask EXCEPT !.self = si]
                  IN  /\ scraperInstance' = si
                      /\ UNCHANGED settleLog
                      /\ IF CacheHit(me, now)
                           THEN /\ task' = [task EXCEPT ![r] = [t0 EXCEPT !.pc = "scraped"]]
                                /\ inst' = [insts EXCEPT ![si].donations = me.cacheDonations]
                           ELSE /\ task' = [task EXCEPT ![r] =
                                              [t0 EXCEPT !.pc = "nav1", !.page = 1]]
                                /\ inst' = insts
  /\ UNCHANGED <<call, lastReport, impl, now, requestQueue, isProcessingQueue>>

\* Steps that touch nothing another call can see are taken together with
\* the step before them: the page count is resolved in the step in which
\* the first navigation returns, the pages are extracted in the step in
\* which the parallel navigations return.

\* The list s with the pages 1..n put after it.
PagesAfter(s, n) == s \o [k \in 1..n |-> k]

\* The browser is launched, navigateToPage(page, 1) and getTotalPages
\* returned (1 when its evaluate threw); this.donations = []; one tab per
\* page 1..totalPages is opened and navigated, all at once.
BNav1Ok(r) ==
  /\ impl = "browser"
  /\ task[r].pc = "nav1"
  /\ \E n \in {getTotalPages(m) : m \in Page1Markups} :
       /\ task' = [task EXCEPT ![r] =
                     [@ EXCEPT !.pc = "navall", !.pages = n, !.total = n,
                               !.resolved = @ + 1, !.loaded = Append(@, 1)]]
       /\ inst' = [inst EXCEPT ![task[r].self].donations = << >>]
  /\ UNCHANGED <<call, lastReport, impl, now, nsub, requestQueue, isProcessingQueue,
                 scraperInstance, startLog, settleLog>>

\* A navigation (or the launch before the first) rejects: the error leaves
\* scrapeAllDonations through its finally and the call resolves to a
\* failure payload.
BNavFail(r) ==
  /\ impl = "browser"
  /\ task[r].pc \in {"nav1", "navall"}
  /\ task' = [task EXCEPT ![r] = Resolved(@, FailurePayload(BrowserErr, 0))]
  /\ settleLog' = Append(settleLog, r)
  /\ UNCHANGED <<call, lastReport, impl, now, nsub, requestQueue, isProcessingQueue,
                 scraperInstance, inst, startLog>>

\* The pages whose extraction fails (waitForSelector times out, evaluate
\* throws): none, or the last page.
ExtractionFailures(n) == { {}, {n} }

\* Every parallel navigation and every extractDonationsFromPage returned,
\* [] where the extraction failed; this.donations = allDonations.flat();
\* the tabs are being closed.
BNavAllOk(r) ==
  /\ impl = "browser"
  /\ task[r].pc = "navall"
  /\ \E lost \in ExtractionFailures(task[r].pages),
        lines1 \in (IF task[r].pages = 1 THEN {0, 2} ELSE {2}) :
       /\ task' = [task EXCEPT ![r] =
                     [@ EXCEPT !.pc = "closing", !.lost = lost,
                               !.loaded = PagesAfter(@, task[r].pages)]]
       /\ inst' = [inst EXCEPT ![task[r].self].donations =
                     FlatPages(1, task[r].pages, lost, lines1)]
  /\ UNCHANGED <<call, lastReport, impl, now, nsub, requestQueue, isProcessingQueue,
                 scraperInstance, startLog, settleLog>>

\* The tabs are closed: this.donations is sorted and becomes the cache.
BClose(r) ==
  /\ impl = "browser"
  /\ task[r].pc = "closing"
  /\ LET me == inst[task[r].self]
         sorted == SortByDate(me.donations)
     IN  inst' = [inst EXCEPT ![task[r].self] =
                    [me EXCEPT !.donations = sorted, !.cached = TRUE,
                               !.cacheDonations = sorted, !.cacheTimestamp = now]]
  /\ task' = [task EXCEPT ![r].pc = "scraped"]
  /\ UNCHANGED <<call, lastReport, impl, now, nsub, requestQueue, isProcessingQueue,
                 scraperInstance, startLog, settleLog>>

\* After `await scraperInstance.scrapeAllDonations()`: filter, build the
\* report, return the success payload.
BReport(r) ==
  /\ impl = "browser"
  /\ task[r].pc = "scraped"
  /\ \E termIn \in {t \in TermInputs : t.isString} :
       LET terms == parseSearchTerms(termIn.parts)
           filtered == filterDonationsByComments(inst[scraperInstance].donations, terms)
       IN  task' = [task EXCEPT ![r] =
                      Resolved(task[r], SuccessPayload(inst[scraperInstance].donations,
                                                       filtered, terms))]
  /\ settleLog' = Append(settleLog, r)
  /\ UNCHANGED <<call, lastReport, impl, now, nsub, requestQueue, isProcessingQueue,
                 scraperInstance, inst, startLog>>

BTimedWait(r) == task[r].pc \in {"nav1", "navall", "closing"}
BTick ==
  /\ impl = "browser"
  /\ now < MaxTime
  /\ (\E r \in Req : BTimedWait(r)) \/ (\A r \in Req : task[r].pc \in {"new", "settled"})
  /\ now' = now + 1
  /\ UNCHANGED <<call, lastReport, impl, nsub, requestQueue, isProcessingQueue, scraperInstance,
                 inst, task, startLog, settleLog>>

InitBrowser ==
  /\ impl = "browser"
  /\ now = 0
  /\ nsub = 0
  /\ requestQueue = << >>
  /\ isProcessingQueue = FALSE
  /\ scraperInstance = 0
  /\ inst = << >>
  /\ task = [r \in Req |-> NewTask]
  /\ startLog = << >>
  /\ settleLog = << >>
  /\ lastReport = NoReport
  /\ call = NoCall

NextBrowser ==
  \/ BCall
  \/ \E r \in Req : BNav1Ok(r)
  \/ \E r \in Req : BNavFail(r)
  \/ \E r \in Req : BNavAllOk(r)
  \/ \E r \in Req : BClose(r)
  \/ \E r \in Req : BReport(r)
  \/ BTick

SpecBrowser == InitBrowser /\ [][NextBrowser]_vars

Init ==
  /\ impl = "http"
  /\ now = 0
  /\ nsub = 0
  /\ requestQueue = << >>
  /\ isProcessingQueue = FALSE
  /\ scraperInstance = 0
  /\ inst = << >>
  /\ task = [r \in Req |-> NewTask]
  /\ startLog = << >>
  /\ settleLog = << >>
  /\ lastReport = NoReport
  /\ call = NoCall

Next ==
  \/ Submit
  \/ \E r \in Req : QueueContinue(r)
  \/ \E r \in Req : FetchOk(r)
  \/ \E r \in Req : DelayDone(r)
  \/ \E r \in Req : FetchFail(r)
  \/ \E r \in Req : BackoffDone(r)
  \/ \E r \in Req : Report(r)
  \/ Tick

Spec == Init /\ [][Next]_vars

\* A task that throws: a value thrown inside the task's try that has no
\* properties (undefined, null) makes the catch block's read of e.message
\* throw in turn, and the task's promise rejects. No throw site of the
\* repository throws such a value; SpecQ adds it to drive processQueue's
\* catch branch.
TaskThrows(r) ==
  /\ impl = "http"
  /\ task[r].pc = "scraped"
  /\ task' = [task EXCEPT ![r] =
                [@ EXCEPT !.pc = "threw", !.result = [NoResult EXCEPT !.threw = TRUE]]]
  /\ UNCHANGED <<call, lastReport, impl, now, nsub, requestQueue, isProcessingQueue,
                 scraperInstance, inst, startLog, settleLog>>

NextQ == Next \/ \E r \in Req : TaskThrows(r)

SpecQ == Init /\ [][NextQ]_vars

\* A step of the task the worker runs: the network answers (axios.get has
\* its timeout, so it settles one way or the other), a timer fires, the
\* report is built.
TaskStep(r) ==
  FetchOk(r) \/ FetchFail(r) \/ DelayDone(r) \/ BackoffDone(r) \/ Report(r)

\* The event loop runs a continuation that is ready: the task whose await
\* has settled goes on, and processQueue goes on after `await task()`.
Progress == \E r \in Req : TaskStep(r) \/ QueueContinue(r)
Fairness == WF_vars(Progress)

SpecLive == Spec /\ Fairness

\* Either implementation loaded.
InitBoth == Init \/ InitBrowser
NextBoth == Next \/ NextBrowser
SpecBoth == InitBoth /\ [][NextBoth]_vars

\* ------------------------------------------- the methods on their own
\* The scraper's pure methods applied to arguments drawn from bounded sets;
\* call holds the last application: the method, its arguments, its value.
\* Each behaviour applies one method to one input: the methods read their
\* arguments (and this.donations, set for the call) and keep nothing.
MaxRecords == 3     \* records in a list handed to filterDonationsByComments

\* Sequences of at most n elements of S.
SeqsUpTo(S, n) == UNION {[1..k -> S] : k \in 0..n}

\* Records to filter: a comment in mixed case, no comment, a comment of two
\* words, a comment that shares no letter run with the others.
FilterRecords ==
  { Donation("ERIP", <<1, 2, 2025>>, 100, <<"S", "e", "n", "o">>, 3000, 6),
    Donation("WebPay", <<15, 1, 2025>>, 200, << >>, 1000, 2),
    Donation("ERIP", <<13, 1, 2025>>, 300, <<"s", "e", "n", "o", " ", "k", "o", "r", "m">>, 500, 1),
    Donation("WebPay", <<2, 1, 2025>>, 50, <<"k", "o", "t">>, 700, 3) }

\* Term lists as processTelegramRequest hands them over (trimmed, none
\* empty), and no list at all.
FilterTerms ==
  { [absent |-> TRUE, list |-> << >>],
    [absent |-> FALSE, list |-> << >>],
    [absent |-> FALSE, list |-> << <<"s", "e", "n">> >>],
    [absent |-> FALSE, list |-> << <<"S", "E", "N", "O">> >>],
    [absent |-> FALSE, list |-> << <<"o", " ", "k">> >>],
    [absent |-> FALSE, list |-> << <<"x", "y", "z">> >>],
    [absent |-> FALSE, list |-> << <<"k", "o", "t">>, <<"k", "o", "r", "m">> >>] }

\* scraper.donations = ds; scraper.filterDonationsByComments(ts)
FilterCall ==
  /\ impl = "pure"
  /\ call = NoCall
  /\ \E ds \in SeqsUpTo(FilterRecords, MaxRecords), ts \in FilterTerms :
       call' = [fn |-> "filterDonationsByComments", donations |-> ds, terms |-> ts,
                out |-> filterDonationsByComments(ds, IF ts.absent THEN << >> ELSE ts.list)]
  /\ UNCHANGED <<impl, now, nsub, requestQueue, isProcessingQueue, scraperInstance,
                 inst, task, startLog, settleLog, lastReport>>

\* A URL is a sequence of pieces: "base" is scheme, host and path, "f=15"
\* a parameter that is not the offset, "start=" the text the code looks
\* for, "re" letters before it, "p9" a fragment's text; "?", "&", "#" and the
\* digits stand for themselves.
MaxPageNumber == 3     \* page numbers handed to buildPageUrl

\* String(n) for n >= 0
RECURSIVE ToDigits(_)
ToDigits(n) ==
  LET d == CHOOSE c \in Digits : DigitVal(c) = n % 10
  IN  IF n < 10 THEN << d >> ELSE Append(ToDigits(n \div 10), d)

\* url.includes(piece)
UrlIncludes(url, piece) == \E k \in 1..Len(url) : url[k] = piece

\* The end of the run of digits that starts at position k.
RECURSIVE DigitRunEnd(_, _)
DigitRunEnd(url, k) ==
  IF k < Len(url) /\ IsDigit(url[k + 1]) THEN DigitRunEnd(url, k + 1) ELSE k

\* A replace that finds nothing.
ReplaceStartNone(url, startValue) == url

\* url.replace(/start=\d+/, `start=${startValue}`): the first "start="
\* that a digit follows, with all the digits after it, is replaced; with no
\* such place the URL is returned as it is.
ReplaceStart(url, startValue) ==
  LET hits == {k \in 1..(Len(url) - 1) : url[k] = "start=" /\ IsDigit(url[k + 1])}
  IN  IF hits = {} THEN url
      ELSE LET k == CHOOSE h \in hits : \A g \in hits : h <= g
           IN  SubSeq(url, 1, k) \o ToDigits(startValue)
                 \o SubSeq(url, DigitRunEnd(url, k + 1) + 1, Len(url))

\* buildPageUrl(pageNumber) of a scraper whose baseUrl is url (the same
\* statements open navigateToPage of the browser implementation).
buildPageUrl(url, pageNumber) ==
  IF pageNumber > 1
    THEN LET startValue == (pageNumber - 1) * 20
         IN  IF UrlIncludes(url, "?")
               THEN IF UrlIncludes(url, "start=")
                      THEN ReplaceStart(url, startValue)
                      ELSE url \o <<"&", "start=">> \o ToDigits(startValue)
               ELSE url \o <<"?", "start=">> \o ToDigits(startValue)
    ELSE url

\* Base URLs: without a query, with a query that has no offset, with an
\* offset that is last, first, of several digits, before a fragment; with a
\* fragment and no offset; with an offset that has no value; with a
\* parameter whose name ends in "start".
BaseUrls ==
  { <<"base">>,
    <<"base", "?", "f=15">>,
    <<"base", "?", "f=15", "&", "start=", "0">>,
    <<"base", "?", "start=", "4", "0", "&", "f=15">>,
    <<"base", "?", "start=", "1", "2", "0">>,
    <<"base", "?", "f=15", "&", "start=", "2", "0", "#", "p9">>,
    <<"base", "?", "f=15", "#", "p9">>,
    <<"base", "?", "f=15", "&", "start=">>,
    <<"base", "?", "re", "start=", "5">> }

\* new ForumDonationScraper(url).buildPageUrl(n)
BuildUrlCall ==
  /\ impl = "pure"
  /\ call = NoCall
  /\ \E url \in BaseUrls, n \in 1..MaxPageNumber :
       call' = [fn |-> "buildPageUrl", url |-> url, page |-> n,
                out |-> buildPageUrl(url, n)]
  /\ UNCHANGED <<impl, now, nsub, requestQueue, isProcessingQueue, scraperInstance,
                 inst, task, startLog, settleLog, lastReport>>

\* Pages to extract from: up to MaxNodes posts, each processed under one or
\* two selectors, each holding one donation line or two with a line-break
\* tag, a newline character or both between them.
MaxNodes == 2     \* content nodes on a page handed to the extraction
ExtractLines == { LineSeno, LineKot }
ExtractBodies ==
  { << Piece(a, "end") >> : a \in ExtractLines }
    \cup { << Piece(a, sep), Piece(b, "end") >> :
             a \in ExtractLines, b \in ExtractLines, sep \in {"br", "nl", "brnl"} }
ExtractNodes == { Node(v, body) : v \in 1..2, body \in ExtractBodies }

\* scraper.extractDonationsFromHtml(html), src/unnamed/part_000
ExtractHtmlCall ==
  /\ impl = "pure"
  /\ call = NoCall
  /\ \E html \in SeqsUpTo(ExtractNodes, MaxNodes) :
       call' = [fn |-> "extractDonationsFromHtml", html |-> html,
                out |-> extractDonationsFromHtml(html)]
  /\ UNCHANGED <<impl, now, nsub, requestQueue, isProcessingQueue, scraperInstance,
                 inst, task, startLog, settleLog, lastReport>>

\* scraper.extractDonationsFromPage(page), src/forum_donation_scraper.js
ExtractPageCall ==
  /\ impl = "pure"
  /\ call = NoCall
  /\ \E html \in SeqsUpTo(ExtractNodes, MaxNodes) :
       call' = [fn |-> "extractDonationsFromPage", html |-> html,
                out |-> extractDonationsFromPage(html)]
  /\ UNCHANGED <<impl, now, nsub, requestQueue, isProcessingQueue, scraperInstance,
                 inst, task, startLog, settleLog, lastReport>>

\* Lines to parse, token by token: a payment method (right, glued to text
\* before it, misspelt, missing), a date (right, short, missing), a time,
\* free text (none, a word, a number, a word and a number), two or three
\* amounts, the currency (right, glued to text after it, misspelt, missing).
ParseFronts ==
  { << p >> : p \in { TokErip, TokWebPay, << "x", "ERIP" >>, << "e", "r", "i", "p" >> } }
    \cup { << >> }
ParseDates ==
  { << << "0", "1", ".", "0", "2", ".", "2", "0", "2", "5" >> >>,
    << << "1", ".", "2", ".", "2", "0", "2", "5" >> >>, << >> }
ParseTimes == { << << "0", "0", ":", "0", "1", ":", "4", "0" >> >>, << >> }
ParseFrees ==
  { << >>, << << "k", "o", "t" >> >>, << << "5" >> >>, << << "k", "o", "t" >>, << "5" >> >> }
ParseAmounts ==
  { << << "3", "0", ".", "0", "0" >>, << "0", ".", "0", "6" >>, << "2", "9", ".", "9", "4" >> >>,
    << << "3", "0" >>, << "0", ".", "5" >>, << "2", "9", "." >> >>,
    << << "0", ".", "0", "6" >>, << "2", "9", ".", "9", "4" >> >> }
ParseEnds ==
  { << TokByn >>, << << "BYN", "WebPay" >> >>, << << "b", "y", "n" >> >>, << >> }
ParseLines ==
  { f \o d \o t \o c \o a \o e :
      f \in ParseFronts, d \in ParseDates, t \in ParseTimes, c \in ParseFrees,
      a \in ParseAmounts, e \in ParseEnds }

\* scraper.parseDonationMessage(line)
ParseCall ==
  /\ impl = "pure"
  /\ call = NoCall
  /\ \E line \in ParseLines :
       call' = [fn |-> "parseDonationMessage", line |-> line,
                out |-> parseDonationMessage(line)]
  /\ UNCHANGED <<impl, now, nsub, requestQueue, isProcessingQueue, scraperInstance,
                 inst, task, startLog, settleLog, lastReport>>

\* The pagination UI of a page, element by element. A link has a text
\* (text: its number, or -1 when the text is not all digits) and an href
\* (start: the offset after "start=", or -1 when the href has none). The
\* caption (count) is the number before the word the pattern looks for, or
\* -1 when the element is missing or its text does not match.
MaxLinks == 2     \* links in the pagination list
PaginationLinks ==
  { [text |-> t, start |-> o] : t \in {-1, 0, 2, 3}, o \in {-1, 0, 20, 45, 60} }
CaptionCounts == {-1, 0, 1, 20, 21, 41, 100}

\* What the two loops and the caption test keep of the elements.
RECURSIVE MaxOf(_)
MaxOf(S) == IF S = {} THEN 0 ELSE LET x == CHOOSE y \in S : TRUE
                                  IN  Max2(x, MaxOf(S \ {x}))
PaginationOf(links, count) ==
  [linkMax |-> MaxOf({links[k].text : k \in 1..Len(links)} \ {-1}),
   startMax |-> MaxOf({links[k].start : k \in 1..Len(links)} \ {-1}),
   msgCount |-> IF count > 0 THEN count ELSE 0,
   lines |-> 0]

\* scraper.determineTotalPages(html) (src/unnamed/part_000) and
\* scraper.getTotalPages(page) (src/forum_donation_scraper.js)
PagesCall ==
  /\ impl = "pure"
  /\ call = NoCall
  /\ \E links \in SeqsUpTo(PaginationLinks, MaxLinks), count \in CaptionCounts :
       \/ call' = [fn |-> "determineTotalPages", links |-> links, count |-> count,
                   out |-> determineTotalPages(PaginationOf(links, count))]
       \/ call' = [fn |-> "getTotalPages", links |-> links, count |-> count,
                   out |-> getTotalPages(PaginationOf(links, count))]
  /\ UNCHANGED <<impl, now, nsub, requestQueue, isProcessingQueue, scraperInstance,
                 inst, task, startLog, settleLog, lastReport>>

\* The temp directory as cleanupTempFiles meets it: for each entry whether
\* it is older than the limit and whether fs.stat and fs.unlink succeed on
\* it; and whether fs.readdir succeeds.
MaxFiles == 2     \* entries of ./temp
TempFiles == [old : BOOLEAN, statOk : BOOLEAN, unlinkOk : BOOLEAN]

\* The for loop of cleanupTempFiles from entry k on: the first rejected
\* fs call throws out of the loop. failed: a call was rejected; deleted:
\* the entries unlinked before.
RECURSIVE CleanupLoop(_, _, _)
CleanupLoop(files, k, deleted) ==
  IF k > Len(files) THEN [failed |-> FALSE, deleted |-> deleted]
  ELSE IF ~files[k].statOk THEN [failed |-> TRUE, deleted |-> deleted]
  ELSE IF ~files[k].old THEN CleanupLoop(files, k + 1, deleted)
  ELSE IF ~files[k].unlinkOk THEN [failed |-> TRUE, deleted |-> deleted]
  ELSE CleanupLoop(files, k + 1, deleted \cup {k})

\* cleanupTempFiles(): try { readdir; loop } catch (_) {}, and the function
\* ends without a return statement: its promise resolves to undefined
\* whatever happened.
CleanupCall ==
  /\ impl = "pure"
  /\ call = NoCall
  /\ \E readdirOk \in BOOLEAN, files \in SeqsUpTo(TempFiles, MaxFiles) :
       LET run == IF readdirOk THEN CleanupLoop(files, 1, {})
                  ELSE [failed |-> TRUE, deleted |-> {}]
       IN  call' = [fn |-> "cleanupTempFiles", readdirOk |-> readdirOk, files |-> files,
                    failed |-> run.failed, deleted |-> run.deleted,
                    out |-> [settled |-> "resolved", value |-> "undefined"]]
  /\ UNCHANGED <<impl, now, nsub, requestQueue, isProcessingQueue, scraperInstance,
                 inst, task, startLog, settleLog, lastReport>>

\* saveXLSXForTelegram(xlsxContent, filename): fs.mkdir and XLSX.writeFile
\* inside try; the catch returns { success: false, error: e.message }.
SaveCall ==
  /\ impl = "pure"
  /\ call = NoCall
  /\ \E named \in BOOLEAN, mkdirOk \in BOOLEAN, writeOk \in BOOLEAN :
       call' = [fn |-> "saveXLSXForTelegram", named |-> named,
                mkdirOk |-> mkdirOk, writeOk |-> writeOk,
                failed |-> ~(mkdirOk /\ writeOk), deleted |-> {},
                out |-> IF mkdirOk /\ writeOk
                          THEN [settled |-> "resolved", value |-> "object",
                                success |-> TRUE, hasPath |-> TRUE, hasError |-> FALSE]
                          ELSE [settled |-> "resolved", value |-> "object",
                                success |-> FALSE, hasPath |-> FALSE, hasError |-> TRUE]]
  /\ UNCHANGED <<impl, now, nsub, requestQueue, isProcessingQueue, scraperInstance,
                 inst, task, startLog, settleLog, lastReport>>

InitPure ==
  /\ impl = "pure"
  /\ now = 0
  /\ nsub = 0
  /\ requestQueue = << >>
  /\ isProcessingQueue = FALSE
  /\ scraperInstance = 0
  /\ inst = << >>
  /\ task = [r \in Req |-> NewTask]
  /\ startLog = << >>
  /\ settleLog = << >>
  /\ lastReport = NoReport
  /\ call = NoCall

NextPure ==
  \/ FilterCall
  \/ BuildUrlCall
  \/ ExtractHtmlCall
  \/ ExtractPageCall
  \/ ParseCall
  \/ PagesCall
  \/ CleanupCall
  \/ SaveCall

SpecPure == InitPure /\ [][NextPure]_vars

\* ---------------------------------------------------------------- claims
Executing(r) == task[r].pc \in {"fetch", "backoff", "delay", "scraped"}
InWorker(r) == Executing(r) \/ task[r].pc \in {"returned", "threw"}
Ascending(n) == [k \in 1..n |-> k]

\* C1: at most one task body executes at any time, whatever the
\* interleaving of calls, and a task starts only after every task dequeued
\* before it has settled.
MutualExclusion ==
  impl = "http" =>
    /\ Cardinality({r \in Req : InWorker(r)}) <= 1
    /\ \A k \in 1..(Len(startLog) - 1) : task[startLog[k]].pc = "settled"

\* C1 witness: a task is suspended in a backoff wait while two more
\* requests have been pushed behind it.
MutualExclusionWitness ==
  /\ \E r \in Req : task[r].pc = "backoff"
  /\ Len(requestQueue) = 2

\* C2: tasks are started, and their callers' promises settled, in the
\* order of the calls (request k is the k-th call).
FifoOrder ==
  impl = "http" =>
    /\ startLog = Ascending(Len(startLog))
    /\ settleLog = Ascending(Len(settleLog))
    /\ Len(settleLog) <= Len(startLog)
    /\ Len(startLog) <= nsub

\* C2 witness: three calls, the second and third queued behind the first,
\* all started and settled.
FifoOrderWitness ==
  /\ impl = "http"
  /\ startLog = <<1, 2, 3>>
  /\ settleLog = <<1, 2, 3>>

\* The step in which request r enters scrapeAllDonations on the scraper
\* that was already there.
EntersScrape(r) ==
  /\ task[r].pc \in {"new", "queued"}
  /\ task'[r].pc \notin {"new", "queued"}
  /\ task'[r].self # 0
  /\ task'[r].self = scraperInstance
  /\ Len(inst') = Len(inst)

\* C3: scrapeAllDonations entered with a populated cache (an empty list
\* included) younger than the time to live returns the cached list without
\* a page fetch and leaves the cache's records and timestamp as they were.
CacheHitNoFetch ==
  [][\A r \in Req :
       (/\ EntersScrape(r)
        /\ inst[scraperInstance].cached
        /\ now - inst[scraperInstance].cacheTimestamp < inst[scraperInstance].cacheTtl)
       => /\ task'[r].pc = "scraped"
          /\ task'[r].loaded = << >>
          /\ task'[r].attempt = 0
          /\ task'[r].page = 0
          /\ inst'[scraperInstance].donations = inst[scraperInstance].cacheDonations
          /\ SnapOf(inst'[scraperInstance]) = SnapOf(inst[scraperInstance])]_vars

\* C3 witness: a task that came back from scrapeAllDonations without a
\* fetch, the cache populated with an empty list at age TTL - 1.
CacheHitWitness ==
  \E r \in Req :
    /\ task[r].pc = "scraped"
    /\ task[r].loaded = << >>
    /\ inst[task[r].self].cached
    /\ inst[task[r].self].cacheDonations = << >>
    /\ inst[task[r].self].donations = << >>
    /\ now - inst[task[r].self].cacheTimestamp = inst[task[r].self].cacheTtl - 1

\* A task that ended because fetchPageHtml threw for page result.page.
FetchFailed(r) ==
  /\ task[r].pc = "returned"
  /\ ~task[r].result.success
  /\ task[r].result.page > 0

\* C4: when a page's fetch fails after its retries the cycle stops there
\* (the pages loaded are the ones before it), the cache is what it was
\* when the cycle started, and the request resolves to a failure payload.
FailFastCachePreserved ==
  /\ \A r \in Req :
       (impl = "http" /\ FetchFailed(r)) =>
         /\ task[r].page = task[r].result.page
         /\ task[r].loaded = Ascending(task[r].page - 1)
         /\ SnapOf(inst[task[r].self]) = task[r].snap
         /\ ~task[r].result.hasDoc
  /\ \A r \in Req :
       (impl = "http" /\ Executing(r) /\ task[r].pc # "scraped") =>
         SnapOf(inst[task[r].self]) = task[r].snap

\* C4 witness: page 2 failed in a cycle started on an expired cache.
FailFastWitness ==
  \E r \in Req :
    /\ FetchFailed(r)
    /\ task[r].result.page = 2
    /\ task[r].snap.cached
    /\ inst[task[r].self].donations # inst[task[r].self].cacheDonations

\* A task that came back from a scrape cycle it ran itself (no cache hit).
CycleDone(r) == task[r].pc = "scraped" /\ task[r].resolved > 0

\* C5: the cache is only ever written by a cycle that loaded and extracted
\* every page 1..N: a cycle in which a page could not be extracted does not
\* reach the cache write and the success payload.
CacheCompleteness ==
  \A r \in Req :
    CycleDone(r) =>
      /\ task[r].lost = {}
      /\ \A p \in 1..task[r].pages : \E k \in 1..Len(task[r].loaded) : task[r].loaded[k] = p

\* C6: every call's promise is settled at most once, resolved and never
\* rejected, with a success payload that carries a document or a failure
\* payload that carries an error and no document.
WellFormed(res) ==
  /\ res.success => (res.hasDoc /\ res.error = NoErr)
  /\ ~res.success => (~res.hasDoc)
EveryCallResolves ==
  /\ \A r \in Req :
       /\ task[r].pc # "threw"
       /\ task[r].pc = "returned" =>
            (WellFormed(task[r].result) /\ (task[r].result.success \/ task[r].result.error # NoErr))
       /\ task[r].pc = "settled" =>
            (task[r].result.settled = "resolved" /\ WellFormed(task[r].result))
  /\ \A j, k \in 1..Len(settleLog) : j # k => settleLog[j] # settleLog[k]

\* C6 witness: one call resolved to a success payload, one to a failure
\* payload, and one task returning the failure payload of a term string
\* that could not be split.
EveryCallResolvesWitness ==
  \E a, b, c \in Req :
    /\ task[a].pc = "settled" /\ task[a].result.success /\ task[a].result.hasDoc
    /\ task[b].pc = "settled" /\ ~task[b].result.success
    /\ task[c].pc = "returned" /\ task[c].result.error = TypeErr

\* C7: a task that throws rejects its own caller and nobody else's; the
\* worker keeps draining: whenever no task is with the worker, nothing is
\* left queued, every call made is settled and the running flag is clear.
FailureIsolation ==
  impl = "http" =>
    /\ \A r \in Req :
         task[r].pc = "settled" =>
           (task[r].result.settled = "rejected" <=> task[r].result.threw)
    /\ \A r \in Req : task[r].pc \in {"new", "queued", "settled"} \/ InWorker(r)
    /\ (\E r \in Req : InWorker(r)) => isProcessingQueue
    /\ (\A r \in Req : ~InWorker(r)) =>
         /\ requestQueue = << >>
         /\ ~isProcessingQueue
         /\ \A r \in 1..nsub : task[r].pc = "settled"

\* C7 witness: the first task threw and its caller was rejected; the two
\* requests behind it were run and resolved, and the flag is clear.
FailureIsolationWitness ==
  /\ task[1].pc = "settled" /\ task[1].result.settled = "rejected"
  /\ task[2].pc = "settled" /\ task[2].result.settled = "resolved"
  /\ task[3].pc = "settled" /\ task[3].result.settled = "resolved"
  /\ task[3].result.success
  /\ ~isProcessingQueue

\* C8: a cycle run on an empty or expired cache resolves the page count
\* once and loads each page 1..N once, N the resolved count capped by the
\* page cap when one is set; at no time is a page loaded twice or a page
\* above N loaded.
FetchCount ==
  \A r \in Req :
    /\ CycleDone(r) =>
         /\ task[r].resolved = 1
         /\ task[r].loaded =
              Ascending(EffectivePages(task[r].total, inst[task[r].self].maxPages))
    /\ \A j, k \in 1..Len(task[r].loaded) :
         j # k => task[r].loaded[j] # task[r].loaded[k]

\* C9: fetchPageHtml makes at most maxRetries attempts; the wait after the
\* k-th failed attempt is 500 * k ms and happens only after a retriable
\* error with k < maxRetries; the markup returned is the last attempt's.
WaitsUpTo(n) == [k \in 1..n |-> 500 * k]
RetryBackoff ==
  \A r \in Req :
    LET t == task[r] IN
    impl = "http" =>
      /\ t.pc \in {"fetch", "backoff", "delay"} =>
           (1 <= t.attempt /\ t.attempt <= inst[t.self].maxRetries)
      /\ t.pc \in {"fetch", "delay"} => t.waits = WaitsUpTo(t.attempt - 1)
      /\ t.pc = "backoff" =>
           /\ t.waits = WaitsUpTo(t.attempt)
           /\ t.attempt < inst[t.self].maxRetries
           /\ Retriable(t.lastErr)
      /\ (t.pc = "delay" \/ CycleDone(r)) =>
           /\ t.res.page = t.page
           /\ t.res.attempt = t.attempt
           /\ t.waits = WaitsUpTo(t.attempt - 1)

\* C9 witness: attempts 1 and 2 failed, attempt 3 succeeded: two waits,
\* 500 and 1000 ms, and the markup in hand is attempt 3's.
RetryBackoffWitness ==
  \E r \in Req :
    /\ task[r].pc = "delay"
    /\ task[r].attempt = 3
    /\ task[r].waits = <<500, 1000>>
    /\ task[r].res.attempt = 3

\* C10: fetchPageHtml gives up on an error that is not retriable or that
\* comes at the last attempt: no wait follows, and the one error thrown
\* names the page and carries the code of the underlying error; a value is
\* returned only for a page some attempt loaded.
FetchFailureSurfacing ==
  \A r \in Req :
    LET t == task[r] IN
    impl = "http" =>
      /\ FetchFailed(r) =>
           /\ t.attempt = inst[t.self].maxRetries \/ ~Retriable(t.lastErr)
           /\ t.result.page = t.page
           /\ t.result.error.code = t.lastErr.code
           /\ t.waits = WaitsUpTo(t.attempt - 1)
           /\ \A k \in 1..Len(t.loaded) : t.loaded[k] # t.page
      /\ (t.pc = "returned" /\ ~t.result.success /\ t.result.error # TypeErr) =>
           FetchFailed(r)
      /\ t.pc = "backoff" =>
           (Retriable(t.lastErr) /\ t.attempt < inst[t.self].maxRetries)
      /\ t.res.page # 0 => \E k \in 1..Len(t.loaded) : t.loaded[k] = t.res.page

\* C10 witness: the third of three attempts failed with a retriable error
\* after two waits, and the task ended with the error of page 2.
FetchFailureWitness ==
  \E r \in Req :
    /\ FetchFailed(r)
    /\ task[r].attempt = 3
    /\ Retriable(task[r].lastErr)
    /\ task[r].result.page = 2
    /\ task[r].result.error.code = "ECONNRESET"

\* a is not after b in calendar time: year, then month, then day, then the
\* time of day.
NotAfter(a, b) ==
  LET x == a.dateTime
      y == b.dateTime
  IN  \/ x.date[3] < y.date[3]
      \/ /\ x.date[3] = y.date[3]
         /\ \/ x.date[2] < y.date[2]
            \/ /\ x.date[2] = y.date[2]
               /\ \/ x.date[1] < y.date[1]
                  \/ (x.date[1] = y.date[1] /\ x.time <= y.time)
Chronological(s) == \A k \in 1..(Len(s) - 1) : NotAfter(s[k], s[k + 1])

\* C11: the record sequence a scrape cycle caches and returns is in
\* non-decreasing order of calendar date-time, whatever page a record came
\* from.
SortedCache ==
  /\ \A i \in 1..Len(inst) : inst[i].cached => Chronological(inst[i].cacheDonations)
  /\ \A r \in Req :
       (impl = "http" /\ task[r].pc = "scraped") =>
         Chronological(inst[task[r].self].donations)

\* C11 witness: a cycle over pages 1 and 2 cached the record of page 2
\* first and the record of 01.02.2025, the first line of page 1, last.
SortedCacheWitness ==
  \E r \in Req :
    /\ CycleDone(r)
    /\ inst[task[r].self].cached
    /\ inst[task[r].self].cacheDonations =
         << Page2Records[1], Page1Records[2], Page1Records[1] >>

\* A task that is inside a scrape cycle of its own: a page is being
\* fetched, or a backoff or the delay after a fetch is being waited for.
Fetching(r) == task[r].pc \in {"fetch", "backoff", "delay"}

\* C12: however the calls interleave, at most one scrape cycle runs at a
\* time and none runs while its scraper's cache is populated and younger
\* than the time to live; a request that finds such a cache is served from
\* it without a fetch.
NoDuplicateScrape ==
  impl = "http" =>
    /\ Cardinality({r \in Req : Fetching(r)}) <= 1
    /\ \A r \in Req :
         Fetching(r) =>
           LET me == inst[task[r].self]
           IN  ~(me.cached /\ now - me.cacheTimestamp < me.cacheTtl)
    /\ \A r \in Req :
         (task[r].pc = "scraped" /\ task[r].resolved = 0) =>
           /\ task[r].loaded = << >>
           /\ task[r].attempt = 0
           /\ inst[task[r].self].cached
           /\ inst[task[r].self].donations = inst[task[r].self].cacheDonations

\* C12 witness: three calls within one tick; the first ran the cycle, the
\* second was served from the cache and the third, started after it, is
\* served from the cache too.
NoDuplicateScrapeWitness ==
  /\ impl = "http"
  /\ now = 0
  /\ startLog = <<1, 2, 3>>
  /\ settleLog = <<1, 2>>
  /\ task[1].result.success /\ task[2].result.success
  /\ task[3].pc = "scraped" /\ task[3].resolved = 0 /\ task[3].loaded = << >>
  /\ Len(inst) = 1
  /\ Len(inst[1].cacheDonations) > 0

\* The same letter, in whatever case.
SameLetter(a, b) ==
  \/ a = b
  \/ {a, b} \in { {"S", "s"}, {"E", "e"}, {"N", "n"}, {"O", "o"}, {"K", "k"} }
\* Comment c holds term t somewhere, letter case apart.
ContainsTerm(c, t) ==
  \E off \in 0..(Len(c) - Len(t)) :
    \A k \in 1..Len(t) : SameLetter(c[off + k], t[k])
\* The records of s that have a comment holding one of the terms, in the
\* order of s.
RECURSIVE Matching(_, _)
Matching(s, terms) ==
  IF s = << >> THEN << >>
  ELSE (IF /\ Head(s).comment # << >>
           /\ \E k \in 1..Len(terms) : ContainsTerm(Head(s).comment, terms[k])
          THEN << Head(s) >> ELSE << >>) \o Matching(Tail(s), terms)

\* C13: filterDonationsByComments gives the whole record sequence for an
\* empty or absent term list, and otherwise exactly the records, in order,
\* whose comment is there and holds one of the terms, letter case apart; a
\* record without a comment is never in the result of a non-empty filter.
FilterExact ==
  call.fn = "filterDonationsByComments" =>
    IF call.terms.absent \/ call.terms.list = << >>
      THEN call.out = call.donations
      ELSE /\ call.out = Matching(call.donations, call.terms.list)
           /\ \A k \in 1..Len(call.out) : call.out[k].comment # << >>

\* C13 witness: a term in upper case picked, out of three records, the two
\* whose comments hold it in other case, and left out the record without a
\* comment that stood between them.
FilterExactWitness ==
  /\ call.fn = "filterDonationsByComments"
  /\ call.terms.list = << <<"S", "E", "N", "O">> >>
  /\ Len(call.donations) = 3
  /\ call.donations[2].comment = << >>
  /\ call.out = << call.donations[1], call.donations[3] >>
  /\ call.donations[1] # call.donations[3]

\* The sum of field f over the records of s.
RECURSIVE SumOf(_, _)
SumOf(s, f) == IF s = << >> THEN 0 ELSE Head(s)[f] + SumOf(Tail(s), f)

\* A task that returned a success payload.
Succeeded(r) == task[r].pc = "returned" /\ task[r].result.success

\* C14: in a success payload totalDonations is the number of records in
\* filteredDonations and the totals are the sums of gross, tax and net over
\* those records, not over all the scraper's records; all are 0 when
\* nothing passed the filter.
TotalsOverFiltered ==
  \A r \in Req :
    (impl = "http" /\ Succeeded(r)) =>
      LET p == task[r].result
      IN  /\ p.totalDonations = Len(p.filtered)
          /\ p.totals.gross = SumOf(p.filtered, "grossAmount")
          /\ p.totals.tax = SumOf(p.filtered, "tax")
          /\ p.totals.net = SumOf(p.filtered, "netAmount")
          /\ p.filtered = Matching(inst[task[r].self].donations, task[r].terms)
               \/ (task[r].terms = << >> /\ p.filtered = inst[task[r].self].donations)
          /\ p.filtered = << >> =>
               (p.totalDonations = 0 /\ p.totals = [gross |-> 0, tax |-> 0, net |-> 0])

\* C14 witness: of the three records of a two-page thread the filter let
\* two pass, and the gross total is theirs: 10.00 + 5.00, not 45.00.
TotalsOverFilteredWitness ==
  \E r \in Req :
    /\ Succeeded(r)
    /\ Len(inst[task[r].self].donations) = 3
    /\ task[r].result.totalDonations = 2
    /\ task[r].result.totals.gross = 1500
    /\ SumOf(inst[task[r].self].donations, "grossAmount") = 4500

\* The task r finishes its report successfully in this step.
ReportsNow(r) == ~task[r].result.success /\ task'[r].result.success

ReportIdempotent ==
  [][\A r \in Req :
       (ReportsNow(r) /\ Repeats(r)) =>
         /\ task'[r].result.summaryMessage = lastReport.summaryMessage
         /\ task'[r].result.xslxContent = lastReport.xslxContent
         /\ SnapOf(inst'[scraperInstance]) = lastReport.cache
         /\ SnapOf(inst'[scraperInstance]) = task[r].snap]_vars

\* C16 witness: a second report for the same terms came from the cache
\* at a later time than the first and has rows to show.
ReportIdempotentWitness ==
  /\ lastReport.valid
  /\ lastReport.again
  /\ lastReport.terms # << >>
  /\ lastReport.xslxContent # << >>
  /\ now > lastReport.cache.cacheTimestamp

\* The values of the parameters named start in the query of a URL: the
\* query runs from the first "?" to the "#" or the end, "&" parts it.
StartValues(url) ==
  { DigitsVal(SubSeq(url, k + 1, DigitRunEnd(url, k + 1))) :
      k \in { j \in 2..(Len(url) - 1) :
                /\ url[j] = "start=" /\ url[j - 1] \in {"?", "&"}
                /\ IsDigit(url[j + 1])
                /\ \A i \in 1..j : url[i] # "#"
                /\ LET m == DigitRunEnd(url, j + 1)
                   IN  m = Len(url) \/ url[m + 1] \in {"&", "#"} } }

UsualUrl(url) ==
  /\ \A k \in 1..Len(url) :
       url[k] = "start=" =>
         (k > 1 /\ url[k - 1] \in {"?", "&"} /\ k < Len(url) /\ IsDigit(url[k + 1]))
  /\ UrlIncludes(url, "#") => UrlIncludes(url, "start=")

IsExtract == call.fn \in {"extractDonationsFromHtml", "extractDonationsFromPage"}
LinesOf(body) == [k \in 1..Len(body) |-> body[k].line]

\* A post whose lines are distinct well-formed donation lines with a
\* line-break tag after each but the last.
BreakSeparated(body) ==
  /\ \A k \in 1..(Len(body) - 1) : body[k].sep \in {"br", "brnl"}
  /\ \A j, k \in 1..Len(body) : j # k => body[j].line # body[k].line
  /\ \A k \in 1..Len(body) : parseDonationMessage(body[k].line) # << >>

\* C18: a post of k distinct well-formed donation lines separated by
\* line-break tags gives k records, one for each line, in the lines' order.
SplitsOnBreaks ==
  (IsExtract /\ Len(call.html) = 1 /\ BreakSeparated(call.html[1].body)) =>
    call.out = ParseAll(LinesOf(call.html[1].body))

\* C18, the browser implementation alone.
SplitsOnBreaksBrowser == call.fn = "extractDonationsFromPage" => SplitsOnBreaks

\* The line texts of a page none of whose posts relies on a bare
\* line-break tag: both implementations cut such a page into the same lines.
RECURSIVE PageLines(_)
PageLines(html) ==
  IF html = << >> THEN {}
  ELSE {HtmlLines(Head(html).body, << >>)[k] :
          k \in 1..Len(HtmlLines(Head(html).body, << >>))} \cup PageLines(Tail(html))
NoBareBreak(html) ==
  \A n \in 1..Len(html) : \A k \in 1..Len(html[n].body) : html[n].body[k].sep # "br"

\* C19: a page yields at most one record for each distinct candidate line
\* text on it, however often the text occurs and under however many
\* selectors its post is found.
OneRecordPerText ==
  (IsExtract /\ NoBareBreak(call.html)) =>
    Len(call.out) <= Cardinality({l \in PageLines(call.html) : IsCandidate(l)})

\* C19, the browser implementation alone.
OneRecordPerTextBrowser == call.fn = "extractDonationsFromPage" => OneRecordPerText

\* A record with every field set: a payment method, the date and the time
\* with dateTime made of the two, three amounts that are numbers, BYN.
CompleteRecord(d) ==
  /\ DOMAIN d = {"paymentMethod", "date", "time", "dateTime", "comment",
                 "grossAmount", "tax", "netAmount", "currency"}
  /\ d.paymentMethod \in PaymentTokens
  /\ d.dateTime = [date |-> d.date, time |-> d.time]
  /\ Len(d.date) = 3 /\ \A k \in 1..3 : d.date[k] \in Nat
  /\ d.time \in Nat
  /\ d.grossAmount \in Nat /\ d.tax \in Nat /\ d.netAmount \in Nat
  /\ d.currency = "BYN"

\* C20: parseDonationMessage gives null or one complete record; null for
\* every line without BYN and for every line without ЕРИП and WebPay; and
\* the amounts of a record are the three numeric tokens right before a BYN
\* of the line, in their order.
ParserAcceptReject ==
  call.fn = "parseDonationMessage" =>
    /\ call.out = << >> \/ (Len(call.out) = 1 /\ CompleteRecord(call.out[1]))
    /\ ~HasLiteral(call.line, "BYN") => call.out = << >>
    /\ ~HasPayment(call.line) => call.out = << >>
    /\ call.out # << >> =>
         \E k \in 4..Len(call.line) :
           /\ call.line[k][1] = "BYN"
           /\ \A m \in 1..3 : IsAmount(call.line[k - m])
           /\ call.out[1].grossAmount = parseFloat(call.line[k - 3])
           /\ call.out[1].tax = parseFloat(call.line[k - 2])
           /\ call.out[1].netAmount = parseFloat(call.line[k - 1])

\* C20 witness: a line with four numbers before BYN is accepted, the first
\* number goes with the free text and the record has the last three.
ParserAcceptRejectWitness ==
  /\ call.fn = "parseDonationMessage"
  /\ call.line = << TokErip, << "0", "1", ".", "0", "2", ".", "2", "0", "2", "5" >>,
                    << "0", "0", ":", "0", "1", ":", "4", "0" >>, << "k", "o", "t" >>,
                    << "5" >>, << "3", "0", ".", "0", "0" >>, << "0", ".", "0", "6" >>,
                    << "2", "9", ".", "9", "4" >>, TokByn >>
  /\ call.out # << >>
  /\ call.out[1].grossAmount = 3000 /\ call.out[1].tax = 6 /\ call.out[1].netAmount = 2994
  /\ call.out[1].comment = << "k", "o", "t" >>

\* A line of the shape with nothing between the time and the amounts is
\* not accepted, and no record has an empty comment.
ParserNeedsFreeText ==
  call.fn = "parseDonationMessage" =>
    /\ call.out # << >> => call.out[1].comment # << >>
    /\ call.line = << TokErip, << "0", "1", ".", "0", "2", ".", "2", "0", "2", "5" >>,
                      << "0", "0", ":", "0", "1", ":", "4", "0" >>,
                      << "3", "0", ".", "0", "0" >>, << "0", ".", "0", "6" >>,
                      << "2", "9", ".", "9", "4" >>, TokByn >>
         => call.out = << >>

\* A line of the fixed shape whose free text is absent or only numbers:
\* payment method, date, time, numeric tokens, BYN; the last three numeric
\* tokens are the amounts.
NumericOnlyShape(line) ==
  /\ Len(line) >= 7
  /\ line[1] \in {TokErip, TokWebPay}
  /\ IsDate(line[2]) /\ IsTime(line[3])
  /\ \A k \in 4..(Len(line) - 1) : IsAmount(line[k])
  /\ line[Len(line)] = TokByn

\* C21: for a line of the fixed shape with no free text, or with numbers
\* only for free text, parseDonationMessage returns a record, its comment
\* is null, and its amounts are the three tokens before BYN.
AbsentCommentIsNull ==
  (call.fn = "parseDonationMessage" /\ NumericOnlyShape(call.line)) =>
    /\ call.out # << >>
    /\ call.out[1].comment = << >>
    /\ call.out[1].grossAmount = parseFloat(call.line[Len(call.line) - 3])
    /\ call.out[1].tax = parseFloat(call.line[Len(call.line) - 2])
    /\ call.out[1].netAmount = parseFloat(call.line[Len(call.line) - 1])

\* What the code does with such lines: without free text there is no
\* record at all; with numbers for free text the first number is the
\* comment.
AbsentCommentAsCoded ==
  (call.fn = "parseDonationMessage" /\ NumericOnlyShape(call.line)) =>
    IF Len(call.line) = 7 THEN call.out = << >>
    ELSE call.out # << >> /\ call.out[1].comment = call.line[4]

\* The page numbers the three signals of a pagination UI give: the numeric
\* link texts, offset / 20 rounded down plus 1 for each link offset, and the
\* caption's count / 20 rounded up.
PageSignals(links, count) ==
  {links[k].text : k \in {j \in 1..Len(links) : links[j].text >= 0}}
    \cup {n \in 1..10 : \E k \in 1..Len(links) :
            /\ links[k].start >= 0
            /\ (n - 1) * 20 <= links[k].start /\ links[k].start < n * 20}
    \cup {n \in 0..10 : count >= 0 /\ (n - 1) * 20 < count /\ count <= n * 20}

\* C22: the page count is the greatest of the signals present and never
\* below 1: 1 when there is no signal.
PageCountResolution ==
  call.fn \in {"determineTotalPages", "getTotalPages"} =>
    /\ call.out \in Nat /\ call.out >= 1
    /\ call.out \in PageSignals(call.links, call.count) \cup {1}
    /\ \A n \in PageSignals(call.links, call.count) : n <= call.out
    /\ PageSignals(call.links, call.count) = {} => call.out = 1

\* C22 witness: the links say 2 (text) and 3 (offset 45), the caption's 100
\* messages say 5, and 5 it is.
PageCountResolutionWitness ==
  /\ call.fn = "determineTotalPages"
  /\ call.links = << [text |-> 2, start |-> 45] >>
  /\ call.count = 100
  /\ call.out = 5

\* The caller of a persistence function can tell from what it gets back
\* that the operation failed: a rejection, or a value that says so.
ErrorOutcome(out) ==
  \/ out.settled = "rejected"
  \/ out.value = "object" /\ ~out.success /\ out.hasError

\* C23: when writing the report document fails, and when listing, stat or
\* delete fails while cleaning temp files, the caller gets an error
\* outcome, not a normal completion.
PersistenceSurfaced ==
  (call.fn \in {"saveXLSXForTelegram", "cleanupTempFiles"} /\ call.failed) =>
    ErrorOutcome(call.out)

\* C23, the half the code keeps: a failed write of the document comes back
\* as { success: false, error }, and a write that worked as success with
\* the path.
SaveSurfaced ==
  call.fn = "saveXLSXForTelegram" =>
    /\ call.failed <=> ErrorOutcome(call.out)
    /\ ~call.failed <=> (call.out.success /\ call.out.hasPath)

\* A scrape cycle of call q is between its start and its cache write.
CycleRunning(q) ==
  task[q].pc \in {"fetch", "backoff", "delay", "nav1", "navall", "closing"}

\* The records a reader finds on scraper i are a whole record set: the one
\* the last finished cycle sorted and cached.
CompleteRecordSet(i) ==
  inst[i].cached /\ inst[i].donations = inst[i].cacheDonations

\* C24: while the cycle of one call runs on the scraper, another call that
\* is about to filter and report reads a whole record set (the previous
\* one or the new one), never the emptied or half-built list of the
\* running cycle.
ReadersSeeCompleteSet ==
  \A r, q \in Req :
    (/\ r # q
     /\ task[r].pc = "scraped"
     /\ CycleRunning(q)
     /\ task[q].self = scraperInstance
     /\ task[r].self = scraperInstance) =>
      CompleteRecordSet(scraperInstance)

\* C25: the page cap a request passes in its options bounds the pages the
\* cycle it triggers fetches, whether its scraper was made for it or was
\* already there from an earlier request with other options.
PerRequestCap ==
  \A r \in Req :
    task[r].maxPages # 0 => Len(task[r].loaded) <= task[r].maxPages

\* C25, what the code does: the cap that bounds a cycle is the one of the
\* request that made the scraper.
ScraperCap ==
  \A r \in Req :
    (task[r].self # 0 /\ inst[task[r].self].maxPages # 0) =>
      Len(task[r].loaded) <= inst[task[r].self].maxPages

\* C26: every request that was submitted is in the end dequeued and its
\* caller settled, however submissions interleave with the worker loop;
\* and whenever the running flag is clear and no task is with the worker,
\* the queue is empty.
NoStrandedRequest ==
  /\ []<>(\A r \in Req : r <= nsub => task[r].pc = "settled")
  /\ []((~isProcessingQueue /\ \A r \in Req : ~InWorker(r)) =>
          requestQueue = << >>)

\* C26 witness: a request arrived while the worker was finishing the task
\* before it (returned, caller not yet settled), waited in the queue, and
\* has been settled; so has the third.
NoStrandedRequestWitness ==
  /\ nsub = 3
  /\ settleLog = <<1, 2, 3>>
  /\ \A r \in Req : task[r].pc = "settled"
  /\ requestQueue = << >>
  /\ ~isProcessingQueue

\* C27: a request is answered from the records of a scraper bound to its
\* own forum URL: when it is about to filter, total and report, the
\* scraper it reads (the singleton) has the URL of the scraper the request
\* obtained when it started, whatever other requests did meanwhile.
UrlIsolation ==
  \A r \in Req :
    task[r].pc = "scraped" =>
      inst[scraperInstance].baseUrl = inst[task[r].self].baseUrl

\* The cycle request r ran was aborted by a fetch failure: r's caller got,
\* or is about to get, the failure payload that names the page.
Aborted(r) ==
  /\ task[r].pc \in {"returned", "settled"}
  /\ ~task[r].result.success
  /\ task[r].result.fetchFailure

\* Request r was taken from the queue with search terms that are a string.
StartedValid(r) ==
  \/ task[r].pc \in {"fetch", "backoff", "delay", "scraped"}
  \/ task[r].pc = "returned" /\ task[r].result.error # TypeErr

\* C28: a failure is not cached. The request after one whose cycle was
\* aborted starts a cycle of its own with page 1: it is not answered from
\* what the aborted cycle left (no report without its own complete cycle)
\* nor with a failure it did not meet itself, and once its cycle has loaded
\* every page it returns a success payload.
FailuresNotCached ==
  \A r \in Req :
    (r > 1 /\ impl = "http" /\ Aborted(r - 1) /\ StartedValid(r)) =>
      /\ task[r].attempt >= 1
      /\ task[r].loaded = << >> => task[r].page = 1
      /\ task[r].loaded # << >> => Head(task[r].loaded) = 1
      /\ task[r].pc = "scraped" => task[r].loaded = Ascending(task[r].pages)
      /\ task[r].pc = "returned" =>
           \/ task[r].result.success /\ task[r].loaded = Ascending(task[r].pages)
           \/ /\ ~task[r].result.success
              /\ task[r].result.page = task[r].page
              /\ task[r].loaded = Ascending(task[r].page - 1)

\* C28 witness: the second request's cycle was aborted after the cache had
\* expired, and the third ran a cycle of its own over pages 1..3 and
\* returned a success payload.
FailuresNotCachedWitness ==
  /\ impl = "http"
  /\ Aborted(2) /\ task[2].pc = "settled"
  /\ inst[scraperInstance].cached
  /\ task[3].pc = "returned" /\ task[3].result.success
  /\ task[3].loaded = <<1, 2, 3>>
  /\ task[3].snap.cached

====
